---- MODULE Spec2Model ----
(***************************************************************************)
(* Verification model of the isp-billing core (netspire-go):               *)
(*   - the IP pool allocator   (internal/services/ippool/service.go)       *)
(*   - the session service     (session package, models.IPTrafficSession)  *)
(*   - the subscription processor (billing.SubscriptionService)            *)
(*   - the traffic-class services, the disconnect service and the         *)
(*     billing algorithms (tclass, disconnect, billing packages)           *)
(* Time is a logical clock `now` counted in ticks; the configured          *)
(* durations (timeouts, delays, TTLs) are given in ticks.                  *)
(***************************************************************************)
EXTENDS Integers, Sequences, FiniteSets, TLC

(***************************************************************************)
(* Bounds of the model.                                                    *)
(***************************************************************************)
NumIPs == 2        \* addresses allocated to the pools
NumLeasers == 2    \* concurrent Lease calls
MaxNow == 3        \* last tick of the logical clock
MaxStack == 1      \* nested leaseFromAnyPool frames before the goroutine stack is exhausted
MinUsed == 1       \* the used counter is followed down to -MinUsed
NumUsers == 1      \* usernames
NumSIDs == 2       \* accounting session ids
MaxSessions == 2   \* session UUIDs generated
MaxRows == 2       \* rows inserted into iptraffic_sessions
MaxPending == 1    \* delayedStopSession goroutines asleep for one session
MaxPendingOne == 2 \* the same, where one session is followed
CounterBits == 2   \* width of the traffic counters (uint64 in the source)
MaxOctets == 1     \* octets of one NetFlow record
MaxAmount == 4     \* amount accounted to one session
MaxFlows == 1      \* HandleNetFlow calls in progress
NumFramedIPs == 1  \* addresses a NAS reports as Framed-IP-Address
NumAccounts == 2   \* active accounts with a monthly fee
NumRunners == 2    \* subscription processors that may run at once
MaxMonth == 2      \* last calendar month of the wall clock
MaxLedger == 3     \* rows followed in fin_transactions
MaxSessNow == 3    \* last tick of the clock of the session service

(***************************************************************************)
(* Program constants and configuration.                                    *)
(***************************************************************************)
Timeout == 2       \* ippool Config.Timeout, in ticks
MaxRetries == 5    \* for retries := 0; retries < 5; retries++
DefaultPool == 1   \* config.DefaultPool ("main")
NumPools == 2      \* pools of the configuration: 1 = "main", 2 = "guest"
SessionTimeout == 1      \* session Config.SessionTimeout, in ticks
NewSessionExpiry == 1    \* NewIPTrafficSession: ExpiresAt = now + 60, in ticks
DelayStop == 1           \* session Config.DelayStop, in ticks
ExpireCleanupDelay == 1  \* ExpireSession: delayedCleanupSession(uuid, 5), in ticks
StopCleanupDelay == 1    \* delayedStopSession: delayedCleanupSession(uuid, 10), in ticks
AddrBits == 2            \* bits of an address (32 in the code)
NumClasses == 2
MaxNets == 2
MaxLoadNets == 1
ClassDefault == 0         \* the default class, no name of Names
CostPerOctet == 1        \* performAccounting: the default price, amount in units of it
MaxRetriesGiven == 2     \* largest Retries of a disconnect Config
DefaultRetries == 3      \* disconnect.New: config.Retries = 3
MaxBalance == 1          \* largest balance and credit of an account
MaxAcctOctets == 1       \* largest octet counter of an accounting request
MaxFlowOctets == 2       \* octets accounted for one flow
MaxSeconds == 2          \* last tick of the day
DefaultCostPerMB == 1    \* getCostPerMB: 0.01
DefaultSessionCost == 5  \* getSessionCost: 5.0
MaxBody == 6             \* attribute bytes of a NAK response
HeaderLen == 20          \* the RADIUS header
AttrLength == 6          \* length of an Error-Cause attribute
AttrErrorCause == 101    \* RADIUS attribute type Error-Cause

IPs == 1..NumIPs
Pools == 1..NumPools
Leasers == 1..NumLeasers
NoIP == 0

\* Pool allocation (addRange): the first address belongs to "guest", the
\* others to "main"; every entry starts free (ExpiresAt = 0).
PoolOfIP(ip) == IF ip = 1 THEN 2 ELSE 1

VARIABLES
  now,         \* time.Now().Unix()
  entries,     \* redis "ippool:<ip>" -> IPPoolEntry{Pool, ExpiresAt}
  used,        \* redis hash "ippool:stats:<pool>" field "used"
  useAnother,  \* config.UseAnotherOneFreePool
  renewErr,    \* the error the last Renew call returned to its caller
  lease,       \* the running Lease calls, one per caller
  sessions,    \* Service.sessions (UUID -> *IPTrafficSession) and the objects still referenced
  idxUser,     \* redis "sessions_by_user:<username>" -> UUID, with its TTL
  idxIP,       \* redis "sessions_by_ip:<ip>" -> UUID, with its TTL
  idxSID,      \* redis "session_by_sid:<sid>" -> UUID, with its TTL
  timers,      \* SessionWorker goroutines waiting on their timeout timer
  dstops,      \* delayedStopSession goroutines asleep
  dcleans,     \* UUID -> earliest wake-up of its delayedCleanupSession goroutines (0: none)
  muxHolder,   \* the goroutine that holds sessionsMux while waiting for it again
  rows,        \* table iptraffic_sessions
  flows,       \* HandleNetFlow calls between findSessionByIP and Lock
  ledger,      \* table fin_transactions
  today,       \* the calendar month of the wall clock
  tree,        \* tclass.Service.tree: the ranges of the search tree, in start order
  classes,     \* tclass.Service.classes (name -> rule)
  searchTree,  \* the tree of the Service that Load fills, in start order
  tcErr,       \* the error the last traffic-class operation returned
  runs,        \* the ProcessMonthlyCharges runs in progress
  given,       \* the disconnect Config handed to New
  svcConfig,   \* disconnect.Service.config
  dpc,         \* the position of the DisconnectSession call
  outcomes,    \* what each sendRADIUSPacket call of the DisconnectSession call met
  tried,       \* the transports the DisconnectSession call has run, with their errors
  lastErr,     \* lastErr of the DisconnectSession call
  dresult,     \* what the DisconnectSession call returned
  billCall,    \* the last call of a billing algorithm and its arguments
  billResult,  \* the BillingResult it returned
  shutdown,    \* Service.Stop: running, waiting in wg.Wait, stopped
  asked,       \* the sessions disconnectAllSessions asked to disconnect
  nakResponse, \* the attribute bytes of the NAK response being parsed
  nakPos,      \* pos of parseErrorCause
  nakPc,       \* where the parseErrorCause call is
  errorCause   \* what parseErrorCause returned

poolVars == <<entries, used, useAnother, renewErr, lease>>

sessVars == <<sessions, idxUser, idxIP, idxSID, timers, dstops, dcleans,
              muxHolder, rows, flows>>

subVars == <<ledger, today, runs>>

tcVars == <<tree, classes, searchTree, tcErr>>

dcVars == <<given, svcConfig, dpc, outcomes, tried, lastErr, dresult>>

billVars == <<billCall, billResult>>

stopVars == <<shutdown, asked>>

nakVars == <<nakResponse, nakPos, nakPc, errorCause>>

extVars == <<dcVars, billVars, stopVars, nakVars>>

(***************************************************************************)
(* models.IPPoolEntry                                                      *)
(***************************************************************************)
IsExpired(e) == IF e.expires_at = 0 THEN FALSE ELSE now >= e.expires_at

IsFree(e) == e.expires_at = 0 \/ IsExpired(e)

LeaseIP(e, timeout) == [e EXCEPT !.expires_at = now + timeout]

ReleaseIP(e) == [e EXCEPT !.expires_at = 0]

(***************************************************************************)
(* Redis keys.  WATCH takes key names: Lease passes the literal string     *)
(* "ippool:*", which is the name of no entry and of no stats hash.         *)
(***************************************************************************)
EntryKey(ip) == <<"ippool:", ip>>
StatsKey(pool) == <<"ippool:stats:", pool>>
WatchedKey == <<"ippool:*", 0>>

\* Keys written by the MULTI/EXEC of a lease and by the pipeline of a release.
WrittenKeys(ip, pool) == {EntryKey(ip), StatsKey(pool)}

\* A write to `keys` invalidates the transactions of the callers that WATCH one of them.
Touch(l, keys, self) ==
  [q \in Leasers |->
     IF q # self /\ l[q].pc = "exec" /\ WatchedKey \in keys
     THEN [l[q] EXCEPT !.dirty = TRUE] ELSE l[q]]

IdleLease == [pc |-> "idle", pool |-> 0, retries |-> 0, cand |-> NoIP,
              newexp |-> 0, stack |-> <<>>, result |-> "none", ip |-> NoIP,
              dirty |-> FALSE]

\* The pool the current (possibly nested) Lease call works on.
CurPool(l) == IF l.stack = <<>> THEN l.pool ELSE l.stack[Len(l.stack)]

\* txf: the first key (KEYS order, here ascending) whose entry is in the pool and free.
FreeIn(pool) == {ip \in IPs : entries[ip].pool = pool /\ IsFree(entries[ip])}

Min(S) == CHOOSE x \in S : \A y \in S : x <= y

FirstFree(pool) == IF FreeIn(pool) = {} THEN NoIP ELSE Min(FreeIn(pool))

\* findLeasedIP: the entry of the pool with the greatest ExpiresAt (> 0), the
\* first such key when several entries share it.
LeasedIn(pool) == {ip \in IPs : entries[ip].pool = pool /\ entries[ip].expires_at > 0}

findLeasedIP(pool) ==
  IF LeasedIn(pool) = {} THEN NoIP
  ELSE Min({ip \in LeasedIn(pool) :
              \A o \in LeasedIn(pool) : entries[o].expires_at <= entries[ip].expires_at})

(***************************************************************************)
(* Service.Lease, one action per redis round trip.                         *)
(***************************************************************************)
\* Entry of Lease: an empty pool name selects the default pool.
LeaseBegin(p, pool) ==
  /\ lease[p].pc \in {"idle", "done"}
  /\ lease' = [lease EXCEPT ![p] = [IdleLease EXCEPT
                  !.pc = "txf",
                  !.pool = IF pool = 0 THEN DefaultPool ELSE pool]]
  /\ UNCHANGED <<now, entries, used, useAnother, renewErr, sessVars, subVars, tcVars, extVars>>

\* WATCH "ippool:*", then txf scans the keys: a free entry of the pool is
\* leased in the local copy (entry.LeaseIP); none makes txf return TxFailedErr,
\* which the retry loop counts.
LeaseTxf(p) ==
  /\ lease[p].pc = "txf"
  /\ LET l == lease[p]
         c == FirstFree(CurPool(l))
     IN  lease' = [lease EXCEPT ![p] =
           IF c # NoIP
           THEN [l EXCEPT !.pc = "exec", !.cand = c, !.dirty = FALSE,
                          !.newexp = LeaseIP(entries[c], Timeout).expires_at]
           ELSE IF l.retries + 1 < MaxRetries
                THEN [l EXCEPT !.retries = l.retries + 1]
                ELSE [l EXCEPT !.retries = l.retries + 1, !.pc = "exhausted"]]
  /\ UNCHANGED <<now, entries, used, useAnother, renewErr, sessVars, subVars, tcVars, extVars>>

\* tx.TxPipelined: MULTI, SET entry, HINCRBY used 1, EXEC.  EXEC is refused
\* only when a watched key was written since WATCH.
LeaseExec(p) ==
  /\ lease[p].pc = "exec"
  /\ LET l == lease[p]
         pool == CurPool(l)
     IN  IF l.dirty
         THEN /\ lease' = [lease EXCEPT ![p] = [l EXCEPT !.pc = "txf", !.dirty = FALSE]]
              /\ UNCHANGED <<entries, used>>
         ELSE /\ entries' = [entries EXCEPT ![l.cand] =
                                [pool |-> pool, expires_at |-> l.newexp]]
              /\ used' = [used EXCEPT ![pool] = @ + 1]
              /\ lease' = [Touch(lease, WrittenKeys(l.cand, pool), p)
                             EXCEPT ![p] = [l EXCEPT !.pc = "find"]]
  /\ UNCHANGED <<now, useAnother, renewErr, sessVars, subVars, tcVars, extVars>>

\* Watch returned nil: the address handed out is whatever findLeasedIP reports.
LeaseFind(p) ==
  /\ lease[p].pc = "find"
  /\ LET l == lease[p]
         ip == findLeasedIP(CurPool(l))
     IN  lease' = [lease EXCEPT ![p] =
           IF ip = NoIP
           THEN [l EXCEPT !.pc = "reterr"]
           ELSE [l EXCEPT !.pc = "done", !.result = "ok", !.ip = ip, !.stack = <<>>,
                          !.retries = 0, !.newexp = 0]]
  /\ UNCHANGED <<now, entries, used, useAnother, renewErr, sessVars, subVars, tcVars, extVars>>

\* The retries are used up: fail, or fall back to leaseFromAnyPool, which
\* calls Lease for each pool of the pools set (and so recurses).
LeaseFallback(p) ==
  /\ lease[p].pc = "exhausted"
  /\ LET l == lease[p]
     IN  lease' = [lease EXCEPT ![p] =
           IF ~useAnother THEN [l EXCEPT !.pc = "reterr"]
           ELSE IF Len(l.stack) >= MaxStack THEN [l EXCEPT !.pc = "overflow"]
           ELSE [l EXCEPT !.pc = "txf", !.retries = 0, !.stack = Append(l.stack, 1)]]
  /\ UNCHANGED <<now, entries, used, useAnother, renewErr, sessVars, subVars, tcVars, extVars>>

\* A Lease call returns an error: to the caller, or to the loop of the
\* enclosing leaseFromAnyPool, which goes on to its next pool.
LeaseReturnErr(p) ==
  /\ lease[p].pc = "reterr"
  /\ LET l == lease[p]
         n == Len(l.stack)
     IN  lease' = [lease EXCEPT ![p] =
           IF n = 0 THEN [l EXCEPT !.pc = "done", !.result = "capacity",
                                   !.retries = 0, !.newexp = 0]
           ELSE IF l.stack[n] < NumPools
                THEN [l EXCEPT !.pc = "txf", !.retries = 0, !.stack[n] = @ + 1]
                ELSE [l EXCEPT !.stack = SubSeq(l.stack, 1, n - 1)]]
  /\ UNCHANGED <<now, entries, used, useAnother, renewErr, sessVars, subVars, tcVars, extVars>>

(***************************************************************************)
(* Service.Renew, Service.Release, Service.CleanupExpiredIPs               *)
(***************************************************************************)
\* Renew with the redis.Nil test left out: the entry is written whether or
\* not the key was found.
RenewedUnchecked(es, ip) ==
  [k \in DOMAIN es \cup {ip} |->
     IF k # ip THEN es[k]
     ELSE LeaseIP(IF ip \in DOMAIN es THEN es[ip] ELSE [pool |-> 0, expires_at |-> 0],
                  Timeout)]

\* Renew: redis.Nil (the key is missing) is an error and nothing is written;
\* a key that is found is leased again, whatever its state.
Renewed(es, ip) ==
  IF ip \in DOMAIN es THEN [es EXCEPT ![ip] = LeaseIP(es[ip], Timeout)] ELSE es

RenewError(es, ip) == IF ip \in DOMAIN es THEN "nil" ELSE "IP not found"

Released(es, ip) ==
  IF ip \in IPs THEN [es EXCEPT ![ip] = ReleaseIP(es[ip])] ELSE es

UsedAfterRelease(u, es, ip) ==
  IF ip \in IPs THEN [u EXCEPT ![es[ip].pool] = @ - 1] ELSE u

Renew(ip) ==
  /\ entries' = Renewed(entries, ip)
  /\ renewErr' = RenewError(entries, ip)
  /\ lease' = Touch(lease, {EntryKey(ip)}, 0)
  /\ UNCHANGED <<now, used, useAnother, sessVars, subVars, tcVars, extVars>>

Release(ip) ==
  /\ ip \in IPs => used[entries[ip].pool] > -MinUsed
  /\ entries' = Released(entries, ip)
  /\ used' = UsedAfterRelease(used, entries, ip)
  /\ lease' = Touch(lease, WrittenKeys(ip, PoolOfIP(ip)), 0)
  /\ UNCHANGED <<now, useAnother, renewErr, sessVars, subVars, tcVars, extVars>>

CleanupExpiredIPs ==
  /\ entries' = [ip \in IPs |->
                   IF entries[ip].expires_at > 0 /\ entries[ip].expires_at <= now
                   THEN ReleaseIP(entries[ip]) ELSE entries[ip]]
  /\ UNCHANGED <<now, used, useAnother, renewErr, lease, sessVars, subVars, tcVars, extVars>>

Tick ==
  /\ now < MaxNow
  /\ now' = now + 1
  /\ UNCHANGED <<poolVars, sessVars, subVars, tcVars, extVars>>

InitPool ==
  /\ now = 1
  /\ entries = [ip \in IPs |-> [pool |-> PoolOfIP(ip), expires_at |-> 0]]
  /\ used = [pl \in Pools |-> 0]
  /\ useAnother \in BOOLEAN
  /\ renewErr = "nil"
  /\ lease = [p \in Leasers |-> IdleLease]

(***************************************************************************)
(* Session service (package session) and models.IPTrafficSession           *)
(***************************************************************************)
Users == 1..NumUsers
SIDs == 1..NumSIDs
UUIDs == 1..MaxSessions
NoUUID == 0

\* No hash under the key session:<uuid>.
NoHash == [status |-> "none"]

\* A session object; stored = it is in the map Service.sessions, hash = what
\* Redis holds under session:<uuid>.
NoSession == [stored |-> FALSE, status |-> "none", username |-> 0, sid |-> 0,
              ip |-> NoIP, expires_at |-> 0, stopped_at |-> 0, db_id |-> 0,
              prepared |-> FALSE, in_octets |-> 0, out_octets |-> 0,
              in_packets |-> 0, out_packets |-> 0, amount |-> 0, hash |-> NoHash]

\* ToRedisHash: the fields of the session as they are now.
ToRedisHash(s) == [s EXCEPT !.hash = NoHash]

\* FromRedisHash: the session object read back from its hash.
FromRedisHash(h) == [h EXCEPT !.stored = TRUE, !.hash = h]

\* saveSessionToRedis: HMSet of the hash under session:<uuid>.
saveSessionToRedis(s) == [s EXCEPT !.hash = ToRedisHash(s)]

NewIPTrafficSession(username) ==
  [NoSession EXCEPT !.stored = TRUE, !.status = "new", !.username = username,
                    !.expires_at = now + NewSessionExpiry]

Prepare(s) == [s EXCEPT !.prepared = TRUE]

Activate(s, sid, ip) == [s EXCEPT !.sid = sid, !.ip = ip, !.status = "active"]

Stop(s) == [s EXCEPT !.status = "stopped", !.stopped_at = now]

Expire(s) == [s EXCEPT !.status = "expired", !.stopped_at = now]

IsActive(s) == s.status = "active"

RenewTimeout(s, timeout) == [s EXCEPT !.expires_at = now + timeout]

\* redis keys written with an expiration: Get finds them until it has passed.
NoKey == [uuid |-> NoUUID, exp |-> 0]

IndexEntry(uuid) == [uuid |-> uuid, exp |-> now + SessionTimeout * 2]

RedisGet(idx, k) == IF idx[k].uuid # NoUUID /\ now < idx[k].exp THEN idx[k].uuid ELSE NoUUID

\* find*: nil when the key is missing or the UUID is not in the map; the map
\* is read under RLock, so a present key makes the caller wait for the lock.
findSessionByUsername(username) ==
  LET u == RedisGet(idxUser, username)
  IN  IF u # NoUUID /\ sessions[u].stored THEN u ELSE NoUUID

findSessionBySID(sid) ==
  LET u == RedisGet(idxSID, sid)
  IN  IF u # NoUUID /\ sessions[u].stored THEN u ELSE NoUUID

FreshUUID == CHOOSE u \in UUIDs : sessions[u].status = "none" /\ \A v \in UUIDs : v < u => sessions[v].status # "none"

\* InitSession: Lock, then findSessionByUsername.  With the username key in
\* redis the lookup asks for RLock while this goroutine holds Lock: the call
\* never returns and the lock is never released.
NoHolder == [op |-> "none", username |-> 0]

\* A goroutine that holds the lock and waits for it never releases it.
muxStuck == muxHolder # NoHolder

InitSession(username) ==
  /\ ~muxStuck
  /\ IF RedisGet(idxUser, username) # NoUUID
     THEN /\ muxHolder' = [op |-> "InitSession", username |-> username]
          /\ UNCHANGED <<sessions, idxUser>>
     ELSE /\ \E u \in UUIDs : sessions[u].status = "none"
          /\ sessions' = [sessions EXCEPT ![FreshUUID] =
                                  saveSessionToRedis(NewIPTrafficSession(username))]
          /\ idxUser' = [idxUser EXCEPT ![username] = IndexEntry(FreshUUID)]
          /\ UNCHANGED muxHolder
  /\ UNCHANGED <<now, poolVars, idxIP, idxSID, timers, dstops, dcleans, rows, subVars, flows, tcVars, extVars>>

PrepareSession(uuid) ==
  /\ ~muxStuck
  /\ IF sessions[uuid].stored
     THEN /\ sessions' = [sessions EXCEPT ![uuid] = saveSessionToRedis(Prepare(@))]
     ELSE /\ UNCHANGED sessions
  /\ UNCHANGED <<now, poolVars, idxUser, idxIP, idxSID, timers, dstops, dcleans,
                 muxHolder, rows, subVars, flows, tcVars, extVars>>

NextRow == CHOOSE r \in 1..MaxRows : rows[r].state = "none" /\ \A q \in 1..MaxRows : q < r => rows[q].state # "none"

\* StartSession: the session found by username is activated whatever its
\* status; when the INSERT fails the call returns after Activate.
StartSession(username, sid, ip, dbOk) ==
  /\ RedisGet(idxUser, username) # NoUUID => ~muxStuck
  /\ LET u == findSessionByUsername(username)
     IN  IF u = NoUUID
         THEN /\ UNCHANGED <<sessions, idxIP, idxSID, timers, rows>>
         ELSE IF ~dbOk
         THEN /\ sessions' = [sessions EXCEPT ![u] = Activate(@, sid, ip)]
              /\ UNCHANGED <<idxIP, idxSID, timers, rows>>
         ELSE /\ \E r \in 1..MaxRows : rows[r].state = "none"
              /\ sessions' = [sessions EXCEPT ![u] =
                                saveSessionToRedis(
                                  [Activate(@, sid, ip) EXCEPT !.db_id = NextRow])]
              /\ rows' = [rows EXCEPT ![NextRow] = [state |-> "open", expired |-> FALSE, amount |-> 0]]
              /\ idxIP' = [idxIP EXCEPT ![ip] = IndexEntry(u)]
              /\ idxSID' = [idxSID EXCEPT ![sid] = IndexEntry(u)]
              /\ timers' = timers \cup {[uuid |-> u, at |-> now + SessionTimeout]}
  /\ UNCHANGED <<now, poolVars, idxUser, dstops, dcleans, muxHolder, subVars, flows, tcVars, extVars>>

\* InterimUpdate: ExpiresAt is renewed and the lease of the session's IP is
\* renewed; the worker's timer is left as it is.
InterimUpdate(sid) ==
  /\ RedisGet(idxSID, sid) # NoUUID => ~muxStuck
  /\ LET u == findSessionBySID(sid)
     IN  IF u = NoUUID
         THEN /\ UNCHANGED <<sessions, entries>>
         ELSE /\ sessions' = [sessions EXCEPT ![u] =
                                saveSessionToRedis(RenewTimeout(@, SessionTimeout))]
              /\ entries' = IF sessions[u].ip # NoIP
                            THEN Renewed(entries, sessions[u].ip) ELSE entries
  /\ UNCHANGED <<now, used, useAnother, renewErr, lease, idxUser, idxIP, idxSID, timers,
                 dstops, dcleans, muxHolder, rows, subVars, flows, tcVars, extVars>>

\* `go delayedCleanupSession(uuid, delay)`: of the goroutines asleep for one
\* UUID the first to wake removes the session, the others find it gone.
Cleanup(dc, uuid, at) ==
  [dc EXCEPT ![uuid] = IF @ = 0 \/ at < @ THEN at ELSE @]

\* `go delayedStopSession(session, delay)`: the goroutines asleep for one
\* session until the same instant are told apart by a count.
Pending(set, uuid, at) ==
  [uuid |-> uuid, at |-> at,
   k |-> 1 + Cardinality({e \in set : e.uuid = uuid /\ e.at = at})]

\* The delayedStopSession goroutines asleep for the session of an Acct-Session-Id.
StopsPending(sid) ==
  Cardinality({d \in dstops : d.uuid = findSessionBySID(sid)})

\* syncSessionToDB: the UPDATE of the session's row; a session without a row
\* is skipped.
syncSessionToDB(rs, s) ==
  IF s.db_id = 0 THEN rs ELSE [rs EXCEPT ![s.db_id].amount = s.amount]

\* StopSession: status stopping, the row is synced, then
\* `go delayedStopSession`.
StopSession(sid) ==
  /\ RedisGet(idxSID, sid) # NoUUID => ~muxStuck
  /\ LET u == findSessionBySID(sid)
     IN  IF u = NoUUID
         THEN /\ UNCHANGED <<sessions, dstops, rows>>
         ELSE /\ sessions' = [sessions EXCEPT ![u].status = "stopping"]
              /\ rows' = syncSessionToDB(rows, sessions[u])
              /\ dstops' = dstops \cup {Pending(dstops, u, now + DelayStop)}
  /\ UNCHANGED <<now, poolVars, idxUser, idxIP, idxSID, timers, dcleans,
                 muxHolder, subVars, flows, tcVars, extVars>>

\* The body of ExpireSession once the lock is held.
Expired(ss, uuid) == [ss EXCEPT ![uuid] = Expire(@)]

\* ExpireSession called through the API (POST /session/expire).
ExpireSession(uuid) ==
  /\ ~muxStuck
  /\ IF sessions[uuid].stored
     THEN /\ sessions' = Expired(sessions, uuid)
          /\ rows' = syncSessionToDB(rows, sessions[uuid])
          /\ dcleans' = Cleanup(dcleans, uuid, now + ExpireCleanupDelay)
     ELSE /\ UNCHANGED <<sessions, dcleans, rows>>
  /\ UNCHANGED <<now, poolVars, idxUser, idxIP, idxSID, timers, dstops,
                 muxHolder, subVars, flows, tcVars, extVars>>

\* SessionWorker.run: the timer fired, the worker calls ExpireSession and ends.
TimerFire(t) ==
  /\ t \in timers
  /\ now >= t.at
  /\ ~muxStuck
  /\ timers' = timers \ {t}
  /\ IF sessions[t.uuid].stored
     THEN /\ sessions' = Expired(sessions, t.uuid)
          /\ rows' = syncSessionToDB(rows, sessions[t.uuid])
          /\ dcleans' = Cleanup(dcleans, t.uuid, now + ExpireCleanupDelay)
     ELSE UNCHANGED <<sessions, dcleans, rows>>
  /\ UNCHANGED <<now, poolVars, idxUser, idxIP, idxSID, dstops, muxHolder,
                 subVars, flows, tcVars, extVars>>

\* A timer or a sleep that is over runs before the next tick, unless the
\* goroutine waits for the lock that is never released.
StopDue(d) ==
  /\ now >= d.at
  /\ sessions[d.uuid].ip \in IPs => used[entries[sessions[d.uuid].ip].pool] > -MinUsed

NothingDue ==
  /\ \A d \in dstops : ~StopDue(d)
  /\ ~muxStuck => /\ \A t \in timers : now < t.at
                  /\ \A u \in UUIDs : dcleans[u] = 0 \/ now < dcleans[u]

\* An object that is neither in the map nor referenced by a sleeping
\* delayedStopSession or by a HandleNetFlow call is garbage.
Collect(ss, ds, fs) ==
  [u \in UUIDs |->
     IF /\ ~ss[u].stored /\ ss[u].status # "none"
        /\ ~\E d \in ds : d.uuid = u
        /\ ~\E f \in fs : f.uuid = u
     THEN [NoSession EXCEPT !.status = "gone", !.hash = ss[u].hash] ELSE ss[u]]

\* delayedStopSession after its sleep; it takes no lock.
DelayedStopRun(d) ==
  /\ d \in dstops
  /\ StopDue(d)
  /\ \A e \in dstops : e.uuid = d.uuid /\ e.at = d.at => e.k <= d.k
  /\ LET s == sessions[d.uuid]
     IN  /\ dstops' = dstops \ {d}
         /\ sessions' = Collect([sessions EXCEPT ![d.uuid] = Stop(@)], dstops', flows)
         /\ entries' = IF s.ip # NoIP THEN Released(entries, s.ip) ELSE entries
         /\ used' = IF s.ip # NoIP THEN UsedAfterRelease(used, entries, s.ip) ELSE used
         /\ rows' = IF s.db_id = 0 THEN rows
                    ELSE [rows EXCEPT ![s.db_id] = [state |-> "finished", expired |-> FALSE,
                                                    amount |-> s.amount]]
         /\ dcleans' = Cleanup(dcleans, d.uuid, now + StopCleanupDelay)
  /\ UNCHANGED <<now, useAnother, renewErr, lease, idxUser, idxIP, idxSID, timers, muxHolder,
                 subVars, flows, tcVars, extVars>>

DelKey(idx, k) == [idx EXCEPT ![k] = NoKey]

\* delayedCleanupSession after its sleep: cleanupSession.
CleanupRun(uuid) ==
  /\ dcleans[uuid] # 0
  /\ now >= dcleans[uuid]
  /\ ~muxStuck
  /\ dcleans' = [dcleans EXCEPT ![uuid] = 0]
  /\ LET s == sessions[uuid]
     IN  IF s.stored
         THEN /\ timers' = {t \in timers : t.uuid # uuid}
              /\ sessions' = Collect([sessions EXCEPT ![uuid].stored = FALSE,
                                                           ![uuid].hash = NoHash],
                                         dstops, flows)
              /\ idxIP' = IF s.ip # NoIP THEN DelKey(idxIP, s.ip) ELSE idxIP
              /\ idxUser' = DelKey(idxUser, s.username)
              /\ idxSID' = IF s.sid # 0 THEN DelKey(idxSID, s.sid) ELSE idxSID
         ELSE UNCHANGED <<timers, sessions, idxIP, idxUser, idxSID>>
  /\ UNCHANGED <<now, poolVars, dstops, muxHolder, rows, subVars, flows, tcVars, extVars>>

\* cleanupExpiredSessions (cleanup ticker): holding Lock it calls
\* ExpireSession, which asks for Lock again.
CleanupExpiredSessions ==
  /\ ~muxStuck
  /\ muxHolder' = IF \E u \in UUIDs : /\ sessions[u].stored
                                         /\ sessions[u].expires_at <= now
                                         /\ sessions[u].status = "active"
                   THEN [op |-> "cleanupExpiredSessions", username |-> 0]
                   ELSE NoHolder
  /\ UNCHANGED <<now, poolVars, sessions, idxUser, idxIP, idxSID, timers, dstops,
                 dcleans, rows, subVars, flows, tcVars, extVars>>

\* redis drops a key when its expiration has passed.
Purge(idx, t) == [k \in DOMAIN idx |-> IF idx[k].exp <= t THEN NoKey ELSE idx[k]]

TickSession ==
  /\ now < MaxSessNow
  /\ NothingDue
  /\ now' = now + 1
  /\ idxUser' = Purge(idxUser, now + 1)
  /\ idxIP' = Purge(idxIP, now + 1)
  /\ idxSID' = Purge(idxSID, now + 1)
  /\ UNCHANGED <<poolVars, sessions, timers, dstops, dcleans, muxHolder, rows, subVars, flows, tcVars, extVars>>

(***************************************************************************)
(* Service.HandleNetFlow and the sync task                                 *)
(***************************************************************************)
CounterMod == 2 ^ CounterBits

\* findSessionByIP: nil unless the session found is active.
\* GET sessions_by_ip:<ip>; an address no session was stored under has no key.
GetByIP(ip) == IF ip \in DOMAIN idxIP THEN RedisGet(idxIP, ip) ELSE NoUUID

findSessionByIP(ip) ==
  LET u == GetByIP(ip)
  IN  IF u # NoUUID /\ sessions[u].stored /\ IsActive(sessions[u]) THEN u ELSE NoUUID

\* performAccounting: the amount of one record.
performAccounting(octets) == octets * CostPerOctet

UpdateTraffic(s, direction, octets, packets) ==
  IF direction = "in"
  THEN [s EXCEPT !.in_octets = (@ + octets) % CounterMod,
                 !.in_packets = (@ + packets) % CounterMod]
  ELSE [s EXCEPT !.out_octets = (@ + octets) % CounterMod,
                 !.out_packets = (@ + packets) % CounterMod]

UpdateTrafficByClass(s, direction, octets, packets, amount) ==
  UpdateTraffic([s EXCEPT !.amount = @ + amount], direction, octets, packets)

\* The addresses a NetFlow record may name.
FlowIPs == 0..(2^AddrBits - 1)

\* net.IP.IsPrivate: the lower half of the addresses stands for the private
\* networks, the upper half for the public ones.
IsPrivate(ip) == ip < 2^(AddrBits - 1)

\* A public address, the peer of the flows of a subscriber.
PublicPeer == 2^AddrBits - 1

\* Service.classifyTraffic of the session service.
classifyTraffic(targetIP) == IF IsPrivate(targetIP) THEN "local" ELSE "internet"

\* HandleNetFlow: targetIP
TargetIP(direction, srcIP, dstIP) == IF direction = "in" THEN dstIP ELSE srcIP

\* HandleNetFlow up to findSessionByIP: the session is looked up, and tested
\* for being active, before the lock is asked for.  The class is a function
\* of the arguments alone and is kept with them.
NetFlowFind(direction, srcIP, dstIP, octets, packets) ==
  /\ GetByIP(TargetIP(direction, srcIP, dstIP)) # NoUUID => ~muxStuck
  /\ LET u == findSessionByIP(TargetIP(direction, srcIP, dstIP))
     IN  flows' = IF u = NoUUID THEN flows
                  ELSE flows \cup {[uuid |-> u, direction |-> direction,
                                    octets |-> octets, packets |-> packets,
                                    src |-> srcIP, dst |-> dstIP,
                                    class |-> classifyTraffic(
                                                TargetIP(direction, srcIP, dstIP))]}
  /\ UNCHANGED <<now, poolVars, sessions, idxUser, idxIP, idxSID, timers, dstops,
                 dcleans, muxHolder, rows, subVars, tcVars, extVars>>

\* HandleNetFlow once it holds the lock: the session found is updated.
NetFlowApply(f) ==
  /\ f \in flows
  /\ ~muxStuck
  /\ flows' = flows \ {f}
  /\ sessions' = Collect([sessions EXCEPT ![f.uuid] =
                            saveSessionToRedis(
                              UpdateTrafficByClass(@, f.direction, f.octets, f.packets,
                                                   performAccounting(f.octets)))],
                         dstops, flows')
  /\ UNCHANGED <<now, poolVars, idxUser, idxIP, idxSID, timers, dstops, dcleans,
                 muxHolder, rows, subVars, tcVars, extVars>>

\* The records the bounds admit: one more call in progress, and an amount
\* within MaxAmount.
FlowAdmitted(ip, octets) ==
  /\ Cardinality(flows) < MaxFlows
  /\ LET u == findSessionByIP(ip)
     IN  u # NoUUID => sessions[u].amount + performAccounting(octets) <= MaxAmount

NeedsSync(s) == s.amount > 0

\* The rows after syncSessionToDB of every session that needs it.
SyncedRows ==
  [r \in 1..MaxRows |->
     IF \E u \in UUIDs : sessions[u].stored /\ sessions[u].db_id = r /\ NeedsSync(sessions[u])
     THEN [rows[r] EXCEPT !.amount =
             sessions[CHOOSE u \in UUIDs : sessions[u].stored /\ sessions[u].db_id = r].amount]
     ELSE rows[r]]

\* syncAllSessions: the sessions that need it are written to their rows.
SyncAllSessions ==
  /\ ~muxStuck
  /\ rows' = SyncedRows
  /\ UNCHANGED <<now, poolVars, sessions, idxUser, idxIP, idxSID, timers, dstops,
                 dcleans, muxHolder, flows, subVars, tcVars, extVars>>

\* The session hashes Redis holds.
Persisted == {u \in UUIDs : sessions[u].hash # NoHash}

\* The sessions as loadExistingSessions reads them back; what was only in
\* the memory of the stopped process is lost.
Reloaded ==
  [u \in UUIDs |->
     IF u \in Persisted THEN FromRedisHash(sessions[u].hash)
     ELSE IF sessions[u].status = "none" THEN NoSession
     ELSE [NoSession EXCEPT !.status = "gone"]]

\* loadExistingSessions rebuilds an index: the keys of the loaded sessions
\* are written anew, in the order of redis.Keys, which ends with `last`.
Reindexed(idx, keyOf, last) ==
  [k \in DOMAIN idx |->
     IF \E u \in Persisted : keyOf[u] = k
     THEN IndexEntry(IF last \in Persisted /\ keyOf[last] = k THEN last
                     ELSE CHOOSE u \in Persisted : keyOf[u] = k)
     ELSE idx[k]]

\* The process ends and is started again: NewService calls
\* loadExistingSessions; goroutines and the mutex of the old process are gone.
Restart ==
  /\ \E last \in UUIDs :
       /\ idxUser' = Reindexed(idxUser, [u \in UUIDs |-> Reloaded[u].username], last)
       /\ idxSID' = Reindexed(idxSID, [u \in UUIDs |-> Reloaded[u].sid], last)
       /\ idxIP' = Reindexed(idxIP, [u \in UUIDs |-> IF Reloaded[u].ip = NoIP THEN -1
                                                     ELSE Reloaded[u].ip], last)
  /\ sessions' = Reloaded
  /\ timers' = {[uuid |-> u, at |-> now + SessionTimeout] :
                  u \in {v \in Persisted : /\ IsActive(Reloaded[v])
                                           /\ now < Reloaded[v].expires_at}}
  /\ dstops' = {}
  /\ dcleans' = [u \in UUIDs |-> 0]
  /\ flows' = {}
  /\ muxHolder' = NoHolder
  /\ UNCHANGED <<now, poolVars, rows, subVars, tcVars, extVars>>

\* disconnectAllSessions: the active sessions with an IP, read under RLock.
disconnectAllSessions ==
  {u \in UUIDs : sessions[u].stored /\ IsActive(sessions[u]) /\ sessions[u].ip # NoIP}

\* Stop up to wg.Wait: stopChan is closed and, if DisconnectOnShutdown is
\* set, the active sessions are asked to disconnect.  The session workers do
\* not listen on the service's stopChan.
StopBegin(disconnectOnShutdown) ==
  /\ shutdown = "running"
  /\ shutdown' = "waiting"
  /\ asked' = IF disconnectOnShutdown /\ ~muxStuck THEN disconnectAllSessions ELSE {}
  /\ UNCHANGED <<now, poolVars, sessVars, subVars, tcVars, dcVars, billVars, nakVars>>

\* Stop after wg.Wait: every session worker has returned, whether its timer
\* fired or cleanupSession closed its stopChan; then the final sync.
StopFinish ==
  /\ shutdown = "waiting"
  /\ timers = {}
  /\ ~muxStuck
  /\ shutdown' = "stopped"
  /\ rows' = SyncedRows
  /\ UNCHANGED <<now, poolVars, sessions, idxUser, idxIP, idxSID, timers, dstops,
                 dcleans, muxHolder, flows, subVars, tcVars, dcVars, billVars, asked,
                 nakVars>>

InitStop ==
  /\ shutdown = "running"
  /\ asked = {}

InitSessions ==
  /\ sessions = [u \in UUIDs |-> NoSession]
  /\ idxUser = [k \in Users |-> NoKey]
  /\ idxIP = [k \in 0..NumIPs |-> NoKey]
  /\ idxSID = [k \in SIDs |-> NoKey]
  /\ timers = {}
  /\ dstops = {}
  /\ dcleans = [u \in UUIDs |-> 0]
  /\ muxHolder = NoHolder
  /\ rows = [r \in 1..MaxRows |-> [state |-> "none", expired |-> FALSE, amount |-> 0]]
  /\ flows = {}

(***************************************************************************)
(* billing.SubscriptionService: ProcessMonthlyCharges                      *)
(***************************************************************************)
Accounts == 1..NumAccounts
Runners == 1..NumRunners
Months == 1..MaxMonth

IdleRun == [pc |-> "idle", target |-> 0, account |-> 0]

\* calculateBillingPeriod: the calendar month of the target date.
calculateBillingPeriod(targetDate) == targetDate

\* isAlreadyCharged: a debit row with the subscription comment whose
\* created_at lies in the period.
isAlreadyCharged(account, period) ==
  \E t \in ledger : /\ t.kind = "subscription"
                    /\ t.ref = account
                    /\ t.created = period

\* debit_transaction: a row of fin_transactions, created_at = now().
debit_transaction(account, period) ==
  [kind |-> "subscription", ref |-> account, period |-> period,
   created |-> today, id |-> Cardinality(ledger) + 1]

\* The loop of ProcessMonthlyCharges goes on to the next account.
NextAccount(r) ==
  IF r.account < NumAccounts THEN [r EXCEPT !.pc = "check", !.account = @ + 1]
  ELSE IdleRun

\* ProcessMonthlyCharges(targetDate): the scheduler passes the current date,
\* the command line any date.
RunBegin(r, targetDate) ==
  /\ runs[r].pc = "idle"
  /\ runs' = [runs EXCEPT ![r] = [pc |-> "check", target |-> targetDate, account |-> 1]]
  /\ UNCHANGED <<now, poolVars, sessVars, ledger, today, tcVars, extVars>>

\* processAccountCharge up to the check of existing charges.
RunCheck(r) ==
  /\ runs[r].pc = "check"
  /\ runs' = [runs EXCEPT ![r] =
       IF isAlreadyCharged(@.account, calculateBillingPeriod(@.target))
       THEN NextAccount(@) ELSE [@ EXCEPT !.pc = "debit"]]
  /\ UNCHANGED <<now, poolVars, sessVars, ledger, today, tcVars, extVars>>

\* processAccountCharge: the debit.
RunDebit(r) ==
  /\ runs[r].pc = "debit"
  /\ Cardinality(ledger) < MaxLedger
  /\ ledger' = ledger \cup
       {debit_transaction(runs[r].account, calculateBillingPeriod(runs[r].target))}
  /\ runs' = [runs EXCEPT ![r] = NextAccount(@)]
  /\ UNCHANGED <<now, poolVars, sessVars, today, tcVars, extVars>>

\* The processor is killed midway.
RunCrash(r) ==
  /\ runs[r].pc # "idle"
  /\ runs' = [runs EXCEPT ![r] = IdleRun]
  /\ UNCHANGED <<now, poolVars, sessVars, ledger, today, tcVars, extVars>>

NextMonth ==
  /\ today < MaxMonth
  /\ today' = today + 1
  /\ UNCHANGED <<now, poolVars, sessVars, ledger, runs, tcVars, extVars>>

InitSub ==
  /\ ledger = {}
  /\ today = 1
  /\ runs = [r \in Runners |-> IdleRun]

NextSub ==
  \/ \E r \in Runners, targetDate \in Months : RunBegin(r, targetDate)
  \/ \E r \in Runners : RunCheck(r)
  \/ \E r \in Runners : RunDebit(r)
  \/ \E r \in Runners : RunCrash(r)
  \/ NextMonth

(***************************************************************************)
(* Traffic classes: models.IPSearchTree and the tclass services            *)
(***************************************************************************)
AddrMod == 2 ^ AddrBits

Names == 1..NumClasses

\* A network of the configuration: an address and a prefix length.
Networks == [ip : 0..(AddrMod - 1), mask : 0..AddrBits]

NetLists(max) == UNION {[1..n -> Networks] : n \in 0..max}

\* models.TrafficClassRule (its name and networks)
Rules == [name : Names, networks : NetLists(MaxNets)]

\* models.TrafficClassConfig.Classes, given to LoadFromConfig and Load: the
\* classes have at most MaxLoadNets networks.
LoadConfigs ==
  UNION {[1..n -> [name : Names, networks : NetLists(MaxLoadNets)]] : n \in 0..NumClasses}

NoClass == <<>>

\* ParseNetwork: start = ip & (ones << (bits - mask)), end = start | (ones >> mask).
ParseNetwork(network) ==
  LET hosts == 2 ^ (AddrBits - network.mask)
      networkStart == network.ip - (network.ip % hosts)
  IN  [Start |-> networkStart, End |-> networkStart + hosts - 1]

\* Service.networkRange: end = start + (1 << (bits - mask)) - 1, in the
\* width of an address.
networkRange(network) ==
  LET hosts == 2 ^ (AddrBits - network.mask)
      start == network.ip - (network.ip % hosts)
  IN  [Start |-> start, End |-> (start + (hosts % AddrMod) - 1) % AddrMod]

RECURSIVE ClassesToIPRanges(_)
\* The ranges of the classes, class by class and network by network.
ClassesToIPRanges(config) ==
  IF config = <<>> THEN <<>>
  ELSE [j \in 1..Len(Head(config).networks) |->
          [Start |-> ParseNetwork(Head(config).networks[j]).Start,
           End |-> ParseNetwork(Head(config).networks[j]).End,
           Class |-> Head(config).name]]
       \o ClassesToIPRanges(Tail(config))

RECURSIVE Triples(_)
\* Service.buildTree: the triples of the classes, by networkRange.
Triples(config) ==
  IF config = <<>> THEN <<>>
  ELSE [j \in 1..Len(Head(config).networks) |->
          [Start |-> networkRange(Head(config).networks[j]).Start,
           End |-> networkRange(Head(config).networks[j]).End,
           Class |-> Head(config).name]]
       \o Triples(Tail(config))

\* sort.Slice by Start: any order of the ranges that is ascending in Start.
SortedByStart(ranges) ==
  LET n == Len(ranges)
  IN  {[i \in 1..n |-> ranges[f[i]]] : f \in
         {g \in Permutations(1..n) :
            \A i \in 1..(n - 1) : ranges[g[i]].Start <= ranges[g[i + 1]].Start}}

\* CheckOverlaps with < where the code has <=: ranges that share only an
\* end point pass.
CheckOverlapsStrict(ranges) ==
  IF \E i \in 1..(Len(ranges) - 1) : ranges[i + 1].Start < ranges[i].End
  THEN "overlap" ELSE "nil"

\* CheckOverlaps: each range is compared with the next one.
CheckOverlaps(ranges) ==
  IF \E i \in 1..(Len(ranges) - 1) : ranges[i + 1].Start <= ranges[i].End
  THEN "overlap" ELSE "nil"

\* ValidateConfiguration: no duplicate name, no class without networks.
ValidateConfiguration(config) ==
  IF \/ \E i, j \in 1..Len(config) : i # j /\ config[i].name = config[j].name
     \/ \E i \in 1..Len(config) : config[i].networks = <<>>
  THEN "invalid" ELSE "nil"

\* The classes map that buildTreeFromConfig makes of a configuration.
NewClasses(config) ==
  [name \in Names |->
     IF \E i \in 1..Len(config) : config[i].name = name
     THEN (CHOOSE r \in {config[i] : i \in 1..Len(config)} : r.name = name).networks
     ELSE NoClass]

\* buildTreeFromConfig: on an error of BuildTree nothing is changed.
buildTreeFromConfig(config, cs) ==
  \E sorted \in SortedByStart(ClassesToIPRanges(config)) :
    LET err == CheckOverlaps(sorted)
    IN  /\ tcErr' = err
        /\ IF err = "nil"
           THEN tree' = sorted /\ classes' = NewClasses(config)
           ELSE tree' = tree /\ classes' = cs

LoadFromConfig(config) ==
  /\ IF ValidateConfiguration(config) # "nil"
     THEN tcErr' = "invalid" /\ UNCHANGED <<tree, classes>>
     ELSE buildTreeFromConfig(config, classes)
  /\ UNCHANGED <<now, poolVars, sessVars, subVars, searchTree, extVars>>

\* The classes of the map in an order of iteration.
AllClasses(cs) ==
  LET present == {name \in Names : cs[name] # NoClass}
      n == Cardinality(present)
  IN  {[i \in 1..n |-> [name |-> f[i], networks |-> cs[f[i]]]] :
         f \in {g \in [1..n -> present] : \A i, j \in 1..n : i # j => g[i] # g[j]}}

\* AddClass: the class is put in the map, the tree is rebuilt from the map,
\* and on an error the class is deleted from the map.
AddClass(class) ==
  /\ IF ValidateConfiguration(<<class>>) # "nil"
     THEN tcErr' = "invalid" /\ UNCHANGED <<tree, classes>>
     ELSE \E config \in AllClasses([classes EXCEPT ![class.name] = class.networks]) :
            buildTreeFromConfig(config, [classes EXCEPT ![class.name] = NoClass])
  /\ UNCHANGED <<now, poolVars, sessVars, subVars, searchTree, extVars>>

RemoveClass(name) ==
  /\ IF classes[name] = NoClass
     THEN tcErr' = "not found" /\ UNCHANGED <<tree, classes>>
     ELSE \E config \in AllClasses([classes EXCEPT ![name] = NoClass]) :
            buildTreeFromConfig(config, [classes EXCEPT ![name] = NoClass])
  /\ UNCHANGED <<now, poolVars, sessVars, subVars, searchTree, extVars>>

\* Service.Load and its buildTree: ranges by networkRange, sorted, checked.
Load(config) ==
  /\ \E sorted \in SortedByStart(Triples(config)) :
       LET err == CheckOverlaps(sorted)
       IN  /\ tcErr' = err
           /\ searchTree' = IF err = "nil" THEN sorted ELSE searchTree
  /\ UNCHANGED <<now, poolVars, sessVars, subVars, tree, classes, extVars>>

\* A nil *TreeNode.
NoNode == <<>>

RECURSIVE buildTreeRecursive(_, _, _)
\* buildTreeRecursive: the middle range of ranges[start..end) is the node
\* (the slice is indexed from 0, the sequence from 1).
buildTreeRecursive(ranges, start, end) ==
  IF start >= end THEN NoNode
  ELSE LET mid == start + ((end - start) \div 2)
       IN  [Start |-> ranges[mid + 1].Start, End |-> ranges[mid + 1].End,
            Class |-> ranges[mid + 1].Class,
            Left |-> buildTreeRecursive(ranges, start, mid),
            Right |-> buildTreeRecursive(ranges, mid + 1, end)]

\* BuildTree after the sort and the overlap check.
BuildTree(sorted) == buildTreeRecursive(sorted, 0, Len(sorted))

NotFound == [Class |-> 0, Found |-> FALSE]

RECURSIVE searchRecursive(_, _)
searchRecursive(node, ip) ==
  IF node = NoNode THEN NotFound
  ELSE IF ip >= node.Start /\ ip <= node.End THEN [Class |-> node.Class, Found |-> TRUE]
  ELSE IF ip < node.Start THEN searchRecursive(node.Left, ip)
  ELSE searchRecursive(node.Right, ip)

\* Service.Classify of a service whose tree was built of `tr` and whose
\* classes map is `cs`: a class found in the tree is looked up in the map.
Classify(tr, cs, ip) ==
  LET r == searchRecursive(BuildTree(tr), ip)
  IN  IF ~r.Found THEN [Class |-> 0, Found |-> FALSE, Err |-> "nil"]
      ELSE IF cs[r.Class] = NoClass
      THEN [Class |-> 0, Found |-> FALSE, Err |-> "class not found in configuration"]
      ELSE [Class |-> r.Class, Found |-> TRUE, Err |-> "nil"]

\* Service.ClassifyWithDefault: the default class when nothing is found.
ClassifyWithDefault(tr, cs, ip, defaultClass) ==
  LET r == Classify(tr, cs, ip)
  IN  IF r.Err # "nil" THEN r
      ELSE IF ~r.Found THEN [Class |-> defaultClass, Found |-> TRUE, Err |-> "nil"]
      ELSE r

RECURSIVE treeFromList(_, _)
\* Service.treeFromList: the tree of the first n triples and the rest of the list.
treeFromList(list, n) ==
  IF n = 0 THEN [tree |-> NoNode, remaining |-> list]
  ELSE LET firstHalf == (n - 1) \div 2
           secondHalf == n - 1 - firstHalf
           left == treeFromList(list, firstHalf)
       IN  IF left.remaining = <<>> THEN [tree |-> NoNode, remaining |-> <<>>]
           ELSE LET middle == Head(left.remaining)
                    right == treeFromList(Tail(left.remaining), secondHalf)
                IN  [tree |-> [Start |-> middle.Start, End |-> middle.End,
                               Class |-> middle.Class,
                               LeftTree |-> left.tree, RightTree |-> right.tree],
                     remaining |-> right.remaining]

RECURSIVE treeSearch(_, _)
treeSearch(ip, t) ==
  IF t = NoNode THEN NotFound
  ELSE IF ip < t.Start THEN treeSearch(ip, t.LeftTree)
  ELSE IF ip > t.End THEN treeSearch(ip, t.RightTree)
  ELSE [Class |-> t.Class, Found |-> TRUE]

\* ClassifyIP and Classify of the Service that Load fills, whose tree was
\* built of the triples `tr`.
ClassifyIP(tr, ip) == treeSearch(ip, treeFromList(tr, Len(tr)).tree)

ClassifyOrDefault(tr, ip, defaultClass) ==
  IF ClassifyIP(tr, ip).Found THEN ClassifyIP(tr, ip).Class ELSE defaultClass

InitTclass ==
  /\ tree = <<>>
  /\ classes = [name \in Names |-> NoClass]
  /\ searchTree = <<>>
  /\ tcErr = "nil"

\* A program runs one of the two services: the other one stays as created.
FirstUnused == tree = <<>> /\ classes = [name \in Names |-> NoClass]

SecondUnused == searchTree = <<>>

NextTclass ==
  \/ \E config \in LoadConfigs : SecondUnused /\ LoadFromConfig(config)
  \/ \E class \in Rules : SecondUnused /\ AddClass(class)
  \/ \E name \in Names : SecondUnused /\ RemoveClass(name)
  \/ \E config \in LoadConfigs : FirstUnused /\ Load(config)

(***************************************************************************)
(* The disconnect service (internal/services/disconnect/service.go).       *)
(* One DisconnectSession call is followed through the packets it sends.    *)
(***************************************************************************)
DisconnectConfigs ==
  [RADIUSEnabled : BOOLEAN, Retries : (-1)..MaxRetriesGiven,
   ScriptEnabled : BOOLEAN, ScriptPath : {"", "script"},
   PodEnabled : BOOLEAN, PodEndpoint : {"", "endpoint"}]

NoConfig == [RADIUSEnabled |-> FALSE, Retries |-> 0,
             ScriptEnabled |-> FALSE, ScriptPath |-> "",
             PodEnabled |-> FALSE, PodEndpoint |-> ""]

\* New: a zero Retries becomes the default.
New(c) == [c EXCEPT !.Retries = IF c.Retries = 0 THEN DefaultRetries ELSE c.Retries]

\* What one sendRADIUSPacket call can meet: an I/O error (dial, write, read
\* or deadline), a datagram shorter than a RADIUS header, or a response
\* whose code is Disconnect-ACK, Disconnect-NAK or anything else.
SendOutcomes == {"io error", "invalid response length", "ACK", "NAK", "unknown"}

SendFailures == {"io error", "invalid response length"}

\* processDisconnectResponse: the error returned for a response.
processDisconnectResponse(response) ==
  CASE response = "ACK" -> "nil"
    [] response = "NAK" -> "disconnect rejected"
    [] OTHER -> "unknown response code"

\* Gives up one attempt early.
LastAttemptEarly(attempt, retries) == attempt + 1 >= retries

\* The for statement of sendRADIUSDisconnect: attempt == s.config.Retries.
LastAttempt(attempt, retries) == attempt = retries

\* createTimeoutContext returns a nil Context with an empty cancel function.
NilContext == "nil Context"

createTimeoutContext == NilContext

\* executeDisconnectScript: exec.CommandContext panics on a nil Context;
\* otherwise the exit code of the script decides.
executeDisconnectScript(exitCode) ==
  IF createTimeoutContext = NilContext THEN "panic"
  ELSE IF exitCode = 0 THEN "nil" ELSE "script failed with exit code"

ScriptConfigured == svcConfig.ScriptEnabled /\ svcConfig.ScriptPath # ""

PodConfigured == svcConfig.PodEnabled /\ svcConfig.PodEndpoint # ""

(***************************************************************************)
(* parseErrorCause: the attributes of a Disconnect-NAK.  A response is its  *)
(* 20 header bytes, which sendRADIUSPacket has checked to be there, and the *)
(* attribute bytes, which are the ones followed here.                      *)
(***************************************************************************)
\* The byte values followed: 0, a length of 2, a length of 6, Error-Cause.
Bytes == {0, 2, AttrLength, AttrErrorCause}

NakBodies == UNION {[1..n -> Bytes] : n \in 0..MaxBody}

\* len(response)
ResponseLen(body) == HeaderLen + Len(body)

\* response[i]
ByteAt(body, i) == body[i - HeaderLen + 1]

\* binary.BigEndian.Uint32(response[from : from+4])
Uint32(body, from) ==
  ByteAt(body, from) * 256 * 256 * 256 + ByteAt(body, from + 1) * 256 * 256
    + ByteAt(body, from + 2) * 256 + ByteAt(body, from + 3)

\* processDisconnectResponse of a NAK calls parseErrorCause, which starts
\* after the header.
ParseBegin(body) ==
  /\ nakPc = "idle"
  /\ nakResponse' = body
  /\ nakPos' = HeaderLen
  /\ nakPc' = "loop"
  /\ errorCause' = 0
  /\ UNCHANGED <<now, poolVars, sessVars, subVars, tcVars, dcVars, billVars, stopVars>>

\* One evaluation of the loop condition and, if it holds, of the loop body.
ParseStep ==
  /\ nakPc = "loop"
  /\ LET len == ResponseLen(nakResponse)
     IN  IF nakPos >= len \/ nakPos + 2 > len
         THEN /\ nakPc' = "done"
              /\ UNCHANGED <<nakPos, errorCause>>
         ELSE LET attrType == ByteAt(nakResponse, nakPos)
                  attrLength == ByteAt(nakResponse, nakPos + 1)
              IN  IF attrType = AttrErrorCause /\ attrLength = AttrLength
                        /\ nakPos + AttrLength <= len
                  THEN /\ errorCause' = Uint32(nakResponse, nakPos + 2)
                       /\ nakPc' = "done"
                       /\ UNCHANGED nakPos
                  ELSE /\ nakPos' = nakPos + attrLength
                       /\ UNCHANGED <<nakPc, errorCause>>
  /\ UNCHANGED <<now, poolVars, sessVars, subVars, tcVars, dcVars, billVars, stopVars,
                 nakResponse>>

\* parseErrorCause has returned; the next response may come.
ParseReturn ==
  /\ nakPc = "done"
  /\ nakPc' = "idle"
  /\ nakResponse' = <<>>
  /\ nakPos' = 0
  /\ errorCause' = 0
  /\ UNCHANGED <<now, poolVars, sessVars, subVars, tcVars, dcVars, billVars, stopVars>>

InitNak ==
  /\ nakResponse = <<>>
  /\ nakPos = 0
  /\ nakPc = "idle"
  /\ errorCause = 0

NextNak ==
  \/ nakPc = "idle" /\ \E body \in NakBodies : ParseBegin(body)
  \/ ParseStep
  \/ ParseReturn

InitDisconnect ==
  /\ given = NoConfig
  /\ svcConfig = NoConfig
  /\ dpc = "new"
  /\ outcomes = <<>>
  /\ tried = <<>>
  /\ lastErr = "nil"
  /\ dresult = "none"

NewService(c) ==
  /\ dpc = "new"
  /\ given' = c
  /\ svcConfig' = New(c)
  /\ dpc' = "idle"
  /\ UNCHANGED <<now, poolVars, sessVars, subVars, tcVars, billVars, stopVars, nakVars, outcomes, tried, lastErr, dresult>>

\* A transport has returned err: DisconnectSession keeps it in lastErr and
\* goes on to the next method, or returns nil.
MethodReturned(transport, err, next) ==
  /\ tried' = Append(tried, [transport |-> transport, err |-> err])
  /\ IF err = "nil"
       THEN dresult' = "nil" /\ dpc' = "done" /\ UNCHANGED lastErr
       ELSE lastErr' = err /\ dpc' = next /\ UNCHANGED dresult

\* DisconnectSession up to the first packet of Method 1; nasOk tells whether
\* nasSpec holds a NAS address that parses.
DisconnectSession(nasOk) ==
  /\ dpc = "idle"
  /\ IF ~svcConfig.RADIUSEnabled
       THEN dpc' = "script" /\ UNCHANGED <<tried, lastErr, dresult>>
       ELSE IF ~nasOk
         THEN MethodReturned("radius", "invalid NAS IP", "script")
         ELSE IF 1 <= svcConfig.Retries
           THEN dpc' = "radius" /\ UNCHANGED <<tried, lastErr, dresult>>
           ELSE MethodReturned("radius", "all disconnect attempts failed", "script")
  /\ UNCHANGED <<now, poolVars, sessVars, subVars, tcVars, billVars, stopVars, nakVars, given, svcConfig, outcomes>>

\* One turn of the for statement of sendRADIUSDisconnect.
SendRADIUSPacket(outcome) ==
  /\ dpc = "radius"
  /\ outcomes' = Append(outcomes, outcome)
  /\ IF outcome \in SendFailures
       THEN IF LastAttempt(Len(outcomes) + 1, svcConfig.Retries)
              THEN MethodReturned("radius", "failed to send disconnect request", "script")
              ELSE UNCHANGED <<dpc, tried, lastErr, dresult>>
       ELSE MethodReturned("radius", processDisconnectResponse(outcome), "script")
  /\ UNCHANGED <<now, poolVars, sessVars, subVars, tcVars, billVars, stopVars, nakVars, given, svcConfig>>

\* Method 2 of DisconnectSession.
ExecuteScript(exitCode) ==
  /\ dpc = "script"
  /\ IF ~ScriptConfigured
       THEN dpc' = "pod" /\ UNCHANGED <<tried, lastErr, dresult>>
       ELSE IF executeDisconnectScript(exitCode) = "panic"
         THEN /\ tried' = Append(tried, [transport |-> "script", err |-> "panic"])
              /\ dresult' = "panic"
              /\ dpc' = "done"
              /\ UNCHANGED lastErr
         ELSE MethodReturned("script", executeDisconnectScript(exitCode), "pod")
  /\ UNCHANGED <<now, poolVars, sessVars, subVars, tcVars, billVars, stopVars, nakVars, given, svcConfig, outcomes>>

\* Method 3 of DisconnectSession and its return statements.
SendPoDPacket(ok) ==
  /\ dpc = "pod"
  /\ IF PodConfigured /\ ok
       THEN MethodReturned("pod", "nil", "done")
       ELSE /\ dpc' = "done"
            /\ IF PodConfigured
                 THEN /\ tried' = Append(tried, [transport |-> "pod",
                                                 err |-> "failed to send PoD packet"])
                      /\ lastErr' = "failed to send PoD packet"
                      /\ dresult' = "all disconnect methods failed"
                 ELSE /\ UNCHANGED <<tried, lastErr>>
                      /\ dresult' = IF lastErr # "nil"
                                      THEN "all disconnect methods failed"
                                      ELSE "no disconnect methods configured"
  /\ UNCHANGED <<now, poolVars, sessVars, subVars, tcVars, billVars, stopVars, nakVars, given, svcConfig, outcomes>>

NextDisconnect ==
  \/ \E c \in DisconnectConfigs : NewService(c)
  \/ \E nasOk \in BOOLEAN : DisconnectSession(nasOk)
  \/ \E outcome \in SendOutcomes : SendRADIUSPacket(outcome)
  \/ \E exitCode \in 0..1 : ExecuteScript(exitCode)
  \/ \E ok \in BOOLEAN : SendPoDPacket(ok)

(***************************************************************************)
(* The billing algorithms (billing.Service and the BillingAlgorithm        *)
(* implementations).  Money is counted in units of 0.01, traffic in units  *)
(* of 2^20 octets, the time of day in ticks.                               *)
(***************************************************************************)
\* A key of plan_data holds <<v>>, or <<>> where the key is absent.
Get(field, defaultValue) == IF field = <<>> THEN defaultValue ELSE field[1]

\* One element of ACCESS_INTERVALS: [boundary, access] or [boundary, access, shaper].
NoThird == "<absent>"

AccessIntervalLists ==
  { <<>>,
    <<[boundary |-> 1, access |-> "accept", shaper |-> "fast"]>>,
    <<[boundary |-> 1, access |-> "reject", shaper |-> NoThird],
      [boundary |-> 2, access |-> "accept", shaper |-> NoThird]>>,
    <<[boundary |-> 2, access |-> "reject", shaper |-> NoThird]>> }

\* INTERVALS: [boundary, prices], prices: class -> [in, out], <<>> for a
\* class without prices.
IntervalLists ==
  { <<>>,
    <<[boundary |-> MaxSeconds + 1,
       prices |-> [class \in {"local", "cdn", "internet"} |->
                     IF class = "internet" THEN <<[in |-> 1, out |-> 2]>>
                     ELSE IF class = "local" THEN <<[in |-> 0, out |-> 0]>>
                     ELSE <<>>]]>>,
    <<[boundary |-> 1,
       prices |-> [class \in {"local", "cdn", "internet"} |-> <<[in |-> 1, out |-> 1]>>]]>> }

\* plan_data as Service.Authorize and Service.ProcessAccounting read it.
ServicePlanDatas ==
  [cost_per_mb : {<<>>, <<2>>}, session_cost : {<<>>, <<1>>},
   CREDIT : {<<>>}, SHAPER : {""}, DROP_SPEED : {<<>>},
   ACCESS_INTERVALS : {<<>>, <<[boundary |-> 2, access |-> "reject", shaper |-> NoThird]>>},
   INTERVALS : {<<>>}, PREPAID : {<<>>}]

\* plan_data as the BillingAlgorithm implementations read it.
AlgoPlanDatas ==
  [cost_per_mb : {<<>>}, session_cost : {<<>>},
   CREDIT : {<<>>, <<1>>}, SHAPER : {"", "slow"}, DROP_SPEED : {<<>>, <<1>>},
   ACCESS_INTERVALS : AccessIntervalLists,
   INTERVALS : IntervalLists, PREPAID : {<<>>, <<1>>}]

\* account.PData that does not parse as JSON.
BadJSON == [invalid |-> "not JSON"]

\* A map that is nil.
NilMap == [nil |-> TRUE]

\* An algorithm name is written with its parts between colons.
KnownAlgos == {"prepaid_auth", "limited_prepaid_auth", "on_auth", "no_overlimit_auth"}

AlgoNames ==
  {<<f>> : f \in KnownAlgos \cup {"postpaid_auth"}}
    \cup {<<"algo_builtin", "prepaid_auth">>, <<"algo_custom", "flat_rate">>}

\* database.SplitAlgoName
SplitAlgoName(algoName) ==
  IF Len(algoName) = 2
    THEN [module |-> algoName[1], function |-> algoName[2]]
    ELSE [module |-> "algo_builtin", function |-> algoName[1]]

BillingAccounts ==
  [Balance : (-MaxBalance)..MaxBalance, Credit : 0..MaxBalance, Algo : AlgoNames,
   PData : ServicePlanDatas \cup {BadJSON}]

AccountingRequests ==
  [AcctStatusType : {"Interim-Update", "Stop"},
   AcctInputOctets : 0..MaxAcctOctets, AcctOutputOctets : 0..MaxAcctOctets]

\* models.BillingResult, with the zero value of every field not set; a nil
\* result with an error is the result ParseError.
BillingResult(decision, reason, amount, replies, planData, class) ==
  [Decision |-> decision, Reason |-> reason, Amount |-> amount,
   Replies |-> replies, PlanData |-> planData, TrafficClass |-> class]

ParseError == [Decision |-> "", Reason |-> "failed to parse plan data", Amount |-> 0,
               Replies |-> <<>>, PlanData |-> NilMap, TrafficClass |-> ""]

getCostPerMB(planData) == Get(planData.cost_per_mb, DefaultCostPerMB)

getSessionCost(planData) == Get(planData.session_cost, DefaultSessionCost)

\* calculateSessionLimit, in seconds.
calculateSessionLimit(account, planData) ==
  IF getCostPerMB(planData) <= 0 THEN 3600
  ELSE LET sessionLimit == ((account.Balance + account.Credit) * 60 * 100)
                              \div (getCostPerMB(planData) * 100)
       IN  IF sessionLimit > 86400 THEN 86400
           ELSE IF sessionLimit < 300 THEN 300 ELSE sessionLimit

prepaidAuth(account, planData) ==
  IF account.Balance + account.Credit <= 0
    THEN BillingResult("Reject", "Insufficient balance", 0, <<>>, NilMap, "")
    ELSE BillingResult("Accept", "", 0,
                       <<[Name |-> "Session-Timeout", Value |-> 3600]>>, planData, "")

limitedPrepaidAuth(account, planData) ==
  IF account.Balance + account.Credit <= 0
    THEN BillingResult("Reject", "Insufficient balance", 0, <<>>, NilMap, "")
    ELSE BillingResult("Accept", "", 0,
                       <<[Name |-> "Session-Timeout",
                          Value |-> calculateSessionLimit(account, planData)]>>,
                       planData, "")

onAuth(account, planData) ==
  IF account.Balance < getSessionCost(planData)
    THEN BillingResult("Reject", "Insufficient balance for session cost", 0, <<>>, NilMap, "")
    ELSE BillingResult("Accept", "", getSessionCost(planData), <<>>, planData, "")

noOverlimitAuth(account, planData) ==
  IF account.Balance <= 0
    THEN BillingResult("Reject", "Zero balance - no overlimit allowed", 0, <<>>, NilMap, "")
    ELSE BillingResult("Accept", "", 0, <<>>, planData, "")

\* Service.Authorize
ServiceAuthorize(account) ==
  IF account.PData = BadJSON THEN ParseError
  ELSE LET function == SplitAlgoName(account.Algo).function
       IN  CASE function = "prepaid_auth" -> prepaidAuth(account, account.PData)
             [] function = "limited_prepaid_auth" -> limitedPrepaidAuth(account, account.PData)
             [] function = "on_auth" -> onAuth(account, account.PData)
             [] function = "no_overlimit_auth" -> noOverlimitAuth(account, account.PData)
             [] OTHER -> BillingResult("Reject", "Unknown auth algorithm", 0, <<>>, NilMap, "")

prepaidAccounting(account, planData, req) ==
  BillingResult("Accept", "",
                (req.AcctInputOctets + req.AcctOutputOctets) * getCostPerMB(planData),
                <<>>, planData, "default")

limitedPrepaidAccounting(account, planData, req) == prepaidAccounting(account, planData, req)

onAuthAccounting(account, planData, req) ==
  IF req.AcctStatusType = "Stop"
    THEN BillingResult("Accept", "", getSessionCost(planData), <<>>, planData, "")
    ELSE BillingResult("Accept", "", 0, <<>>, planData, "")

noOverlimitAccounting(account, planData, req) == prepaidAccounting(account, planData, req)

\* Service.ProcessAccounting
ServiceProcessAccounting(account, req) ==
  IF account.PData = BadJSON THEN ParseError
  ELSE LET function == SplitAlgoName(account.Algo).function
       IN  CASE function = "prepaid_auth" -> prepaidAccounting(account, account.PData, req)
             [] function = "limited_prepaid_auth" ->
                  limitedPrepaidAccounting(account, account.PData, req)
             [] function = "on_auth" -> onAuthAccounting(account, account.PData, req)
             [] function = "no_overlimit_auth" ->
                  noOverlimitAccounting(account, account.PData, req)
             [] OTHER -> BillingResult("Accept", "Unknown acct algorithm", 0, <<>>, NilMap, "")

\* checkAccessIntervals: the first interval whose boundary lies after the
\* time of day decides; no such interval rejects.
RECURSIVE accessFrom(_, _, _, _)
accessFrom(intervals, i, todaySeconds, defaultShaper) ==
  IF i > Len(intervals) THEN [Decision |-> "reject", Shaper |-> ""]
  ELSE IF todaySeconds < intervals[i].boundary
    THEN IF intervals[i].access = "accept"
           THEN [Decision |-> "accept",
                 Shaper |-> IF intervals[i].shaper = NoThird THEN defaultShaper
                            ELSE intervals[i].shaper]
           ELSE [Decision |-> "reject", Shaper |-> ""]
    ELSE accessFrom(intervals, i + 1, todaySeconds, defaultShaper)

checkAccessIntervals(planData, defaultShaper, todaySeconds) ==
  IF planData.ACCESS_INTERVALS = <<>>
    THEN [Decision |-> "accept", Shaper |-> defaultShaper]
    ELSE accessFrom(planData.ACCESS_INTERVALS, 1, todaySeconds, defaultShaper)

ShaperReply(shaper) ==
  IF shaper # "" THEN <<[Name |-> "Netspire-Shapers", Value |-> shaper]>> ELSE <<>>

\* PrepaidAlgorithm.Authorize
PrepaidAuthorize(balance, planData, todaySeconds) ==
  LET accessResult == checkAccessIntervals(planData, planData.SHAPER, todaySeconds)
  IN  IF accessResult.Decision # "accept"
        THEN BillingResult("reject", "time_of_day", 0, <<>>, NilMap, "")
        ELSE IF balance + Get(planData.CREDIT, 0) >= 0
          THEN BillingResult("accept", "", 0, ShaperReply(accessResult.Shaper), NilMap, "")
          ELSE BillingResult("reject", "low_balance", 0, <<>>, NilMap, "")

\* NoOverlimitAlgorithm.Authorize
NoOverlimitAuthorize(balance, planData, todaySeconds) ==
  LET accessResult == checkAccessIntervals(planData, planData.SHAPER, todaySeconds)
  IN  IF accessResult.Decision # "accept"
        THEN BillingResult("reject", "time_of_day", 0, <<>>, NilMap, "")
        ELSE IF balance + Get(planData.CREDIT, 0) >= 0
          THEN BillingResult("accept", "", 0,
                             IF Get(planData.DROP_SPEED, 0) = 1
                               THEN ShaperReply(planData.SHAPER)
                               ELSE ShaperReply(accessResult.Shaper),
                             NilMap, "")
          ELSE BillingResult("reject", "low_balance", 0, <<>>, NilMap, "")

\* The addresses a flow may name: of a local network, of a CDN network, of
\* neither, and a string that is no address.
TargetIPs == {"10.0.0.1", "8.8.8.8", "203.0.113.1", "no address"}

\* classifyTraffic of the billing package
billingClassifyTraffic(targetIP) ==
  CASE targetIP = "10.0.0.1" -> "local"
    [] targetIP = "8.8.8.8" -> "cdn"
    [] OTHER -> "internet"

calculateOverlimit(octets, limit) ==
  IF octets <= limit
    THEN [payableOctets |-> 0, remainingLimit |-> limit - octets]
    ELSE [payableOctets |-> octets - limit, remainingLimit |-> 0]

\* The prices of the first interval whose boundary lies after the time of
\* day; <<>> where there is none.
RECURSIVE pricesFrom(_, _, _)
pricesFrom(intervals, i, todaySeconds) ==
  IF i > Len(intervals) THEN <<>>
  ELSE IF todaySeconds < intervals[i].boundary THEN <<intervals[i].prices>>
  ELSE pricesFrom(intervals, i + 1, todaySeconds)

\* PrepaidAlgorithm.Account
PrepaidAccount(planData, direction, targetIP, octets, todaySeconds) ==
  LET class == billingClassifyTraffic(targetIP)
      free == BillingResult("accept", "", 0, <<>>, planData, class)
      currentPrices == pricesFrom(planData.INTERVALS, 1, todaySeconds)
  IN  IF planData.INTERVALS = <<>> \/ currentPrices = <<>> THEN free
      ELSE IF currentPrices[1][class] = <<>> THEN free
      ELSE LET price == IF direction = "in" THEN currentPrices[1][class][1].in
                        ELSE currentPrices[1][class][1].out
               prepaidBytes == Get(planData.PREPAID, 0)
               over == calculateOverlimit(octets, prepaidBytes)
           IN  IF price = 0 THEN free
               ELSE BillingResult("accept", "", price * over.payableOctets, <<>>,
                                  IF over.remainingLimit # prepaidBytes
                                    THEN [planData EXCEPT !.PREPAID = <<over.remainingLimit>>]
                                    ELSE planData,
                                  class)

\* NoOverlimitAlgorithm.Account
NoOverlimitAccount(planData, direction, targetIP, octets, todaySeconds) ==
  LET result == PrepaidAccount(planData, direction, targetIP, octets, todaySeconds)
  IN  IF result.Amount > 0
        THEN BillingResult("accept", "", 0, <<>>,
                           [result.PlanData EXCEPT !.DROP_SPEED = <<1>>],
                           result.TrafficClass)
        ELSE result

\* No call is in progress.
NoCall == [op |-> "none"]

NoResult == BillingResult("", "", 0, <<>>, NilMap, "")

InitBilling ==
  /\ billCall = NoCall
  /\ billResult = NoResult

Authorize(account, todaySeconds) ==
  /\ billCall = NoCall
  /\ billCall' = [op |-> "Authorize", account |-> account, todaySeconds |-> todaySeconds]
  /\ billResult' = ServiceAuthorize(account)
  /\ UNCHANGED <<now, poolVars, sessVars, subVars, tcVars, dcVars, stopVars, nakVars>>

ProcessAccounting(account, req) ==
  /\ billCall = NoCall
  /\ billCall' = [op |-> "ProcessAccounting", account |-> account, req |-> req]
  /\ billResult' = ServiceProcessAccounting(account, req)
  /\ UNCHANGED <<now, poolVars, sessVars, subVars, tcVars, dcVars, stopVars, nakVars>>

AlgorithmAuthorize(algo, balance, planData, todaySeconds) ==
  /\ billCall = NoCall
  /\ billCall' = [op |-> "Algorithm.Authorize", algo |-> algo, balance |-> balance,
                  planData |-> planData, todaySeconds |-> todaySeconds]
  /\ billResult' = IF algo = "prepaid_auth"
                     THEN PrepaidAuthorize(balance, planData, todaySeconds)
                     ELSE NoOverlimitAuthorize(balance, planData, todaySeconds)
  /\ UNCHANGED <<now, poolVars, sessVars, subVars, tcVars, dcVars, stopVars, nakVars>>

AlgorithmAccount(algo, planData, direction, targetIP, octets, todaySeconds) ==
  /\ billCall = NoCall
  /\ billCall' = [op |-> "Algorithm.Account", algo |-> algo, planData |-> planData,
                  direction |-> direction, targetIP |-> targetIP, octets |-> octets,
                  todaySeconds |-> todaySeconds]
  /\ billResult' = IF algo = "prepaid_auth"
                     THEN PrepaidAccount(planData, direction, targetIP, octets, todaySeconds)
                     ELSE NoOverlimitAccount(planData, direction, targetIP, octets,
                                             todaySeconds)
  /\ UNCHANGED <<now, poolVars, sessVars, subVars, tcVars, dcVars, stopVars, nakVars>>

\* The caller has taken the result; the next call may follow.
BillingReturn ==
  /\ billCall # NoCall
  /\ billCall' = NoCall
  /\ billResult' = NoResult
  /\ UNCHANGED <<now, poolVars, sessVars, subVars, tcVars, dcVars, stopVars, nakVars>>

NextBilling ==
  \/ BillingReturn
  \/ /\ billCall = NoCall
     /\ \E account \in BillingAccounts, todaySeconds \in 0..MaxSeconds :
          Authorize(account, todaySeconds)
  \/ /\ billCall = NoCall
     /\ \E account \in BillingAccounts, req \in AccountingRequests :
          ProcessAccounting(account, req)
  \/ /\ billCall = NoCall
     /\ \E algo \in {"prepaid_auth", "no_overlimit_auth"},
           balance \in (-MaxBalance - 1)..MaxBalance,
           planData \in AlgoPlanDatas, todaySeconds \in 0..MaxSeconds :
          AlgorithmAuthorize(algo, balance, planData, todaySeconds)
  \/ /\ billCall = NoCall
     /\ \E algo \in {"prepaid_auth", "no_overlimit_auth"}, planData \in AlgoPlanDatas,
           direction \in {"in", "out"}, targetIP \in TargetIPs,
           octets \in 0..MaxFlowOctets, todaySeconds \in 0..MaxSeconds :
          AlgorithmAccount(algo, planData, direction, targetIP, octets, todaySeconds)

Init ==
  /\ InitPool /\ InitSessions /\ InitSub /\ InitTclass /\ InitDisconnect
  /\ InitBilling /\ InitStop /\ InitNak

\* The session service under logins, accounting requests, timers and the
\* cleanup tick; the prepare step is followed in NextOne and NextFlow.
NextSession ==
  \/ \E username \in Users : InitSession(username)
  \/ \E username \in Users, sid \in SIDs, ip \in 0..NumFramedIPs :
       StartSession(username, sid, ip, TRUE)
  \/ \E sid \in SIDs : InterimUpdate(sid)
  \/ \E sid \in SIDs : StopsPending(sid) < MaxPending /\ StopSession(sid)
  \/ \E uuid \in UUIDs : ExpireSession(uuid)
  \/ \E t \in timers : TimerFire(t)
  \/ \E d \in dstops : DelayedStopRun(d)
  \/ \E uuid \in UUIDs : CleanupRun(uuid)
  \/ CleanupExpiredSessions
  \/ TickSession

LeaseStep(p) ==
  \/ \E pool \in 0..NumPools : LeaseBegin(p, pool)
  \/ LeaseTxf(p)
  \/ LeaseExec(p)
  \/ LeaseFind(p)
  \/ LeaseFallback(p)
  \/ LeaseReturnErr(p)

\* The allocator under concurrent Lease calls.
NextLease == \E p \in Leasers : LeaseStep(p)

\* The allocator with one caller leasing while addresses are renewed,
\* released, swept and time passes.
NextPool ==
  \/ LeaseStep(1)
  \/ \E ip \in 1..(NumIPs + 1) : Renew(ip)
  \/ \E ip \in 1..(NumIPs + 1) : Release(ip)
  \/ CleanupExpiredIPs
  \/ Tick

vars == <<now, poolVars, sessVars, subVars, tcVars, extVars>>

SpecLease == Init /\ [][NextLease]_vars

SpecPool == Init /\ [][NextPool]_vars

\* The allocator with every address in the default pool, one caller leasing
\* while leases are renewed and time passes; nothing is released.
InitOnePool ==
  /\ InitSessions /\ InitSub /\ InitTclass /\ InitDisconnect /\ InitBilling /\ InitStop
  /\ InitNak
  /\ now = 1
  /\ entries = [ip \in IPs |-> [pool |-> DefaultPool, expires_at |-> 0]]
  /\ used = [pl \in Pools |-> 0]
  /\ useAnother \in BOOLEAN
  /\ renewErr = "nil"
  /\ lease = [p \in Leasers |-> IdleLease]

NextOnePool ==
  \/ LeaseStep(1)
  \/ \E ip \in 1..(NumIPs + 1) : Renew(ip)
  \/ Tick

SpecOnePool == InitOnePool /\ [][NextOnePool]_vars

\* The allocator under consecutive Lease calls of one caller.
SpecLeaseSeq == Init /\ [][LeaseStep(1)]_vars

\* The session service; the allocator is configured as in the sample
\* configuration and no Lease call is in progress.
InitSession0 == Init /\ useAnother

\* The traffic-class services.
SpecTclass == InitSession0 /\ [][NextTclass]_vars

\* The subscription processor.
SpecSub == Init /\ [][NextSub]_vars

SpecSession == InitSession0 /\ [][NextSession]_vars

\* The session service where one login is followed through the accounting
\* requests of one Acct-Session-Id, whose INSERT may fail and whose stop
\* request may be repeated.
NextOne ==
  \/ \E username \in Users : sessions[1].status = "none" /\ InitSession(username)
  \/ \E uuid \in UUIDs : PrepareSession(uuid)
  \/ \E username \in Users, ip \in 0..NumFramedIPs, dbOk \in BOOLEAN :
       StartSession(username, 1, ip, dbOk)
  \/ InterimUpdate(1)
  \/ StopsPending(1) < MaxPendingOne /\ StopSession(1)
  \/ \E uuid \in UUIDs : ExpireSession(uuid)
  \/ \E t \in timers : TimerFire(t)
  \/ \E d \in dstops : DelayedStopRun(d)
  \/ \E uuid \in UUIDs : CleanupRun(uuid)
  \/ CleanupExpiredSessions
  \/ TickSession

SpecOne == InitSession0 /\ [][NextOne]_vars

\* The session service under a scheduler that lets every goroutine that can
\* take a step take one: logins, the timers and the cleanup tick.
NextLock ==
  \/ \E username \in Users : InitSession(username)
  \/ \E username \in Users, ip \in 1..NumFramedIPs : StartSession(username, 1, ip, TRUE)
  \/ \E t \in timers : TimerFire(t)
  \/ \E uuid \in UUIDs : CleanupRun(uuid)
  \/ CleanupExpiredSessions
  \/ TickSession

SpecLock == InitSession0 /\ [][NextLock]_vars /\ WF_vars(NextLock)

\* The session service where one login is followed through NetFlow records
\* and the sync task.
NextFlow ==
  \/ \E username \in Users : sessions[1].status = "none" /\ InitSession(username)
  \/ \E uuid \in UUIDs : PrepareSession(uuid)
  \/ \E username \in Users, ip \in 1..NumFramedIPs : StartSession(username, 1, ip, TRUE)
  \/ InterimUpdate(1)
  \/ StopsPending(1) < MaxPending /\ StopSession(1)
  \/ \E uuid \in UUIDs : ExpireSession(uuid)
  \/ \E t \in timers : TimerFire(t)
  \/ \E d \in dstops : DelayedStopRun(d)
  \/ \E uuid \in UUIDs : CleanupRun(uuid)
  \/ \E direction \in {"in", "out"}, ip \in 1..NumFramedIPs, octets \in 1..MaxOctets :
       /\ FlowAdmitted(ip, octets)
       /\ NetFlowFind(direction, IF direction = "in" THEN PublicPeer ELSE ip,
                      IF direction = "in" THEN ip ELSE PublicPeer, octets, 1)
  \/ \E f \in flows : NetFlowApply(f)
  \/ SyncAllSessions
  \/ TickSession

SpecFlow == InitSession0 /\ [][NextFlow]_vars

\* The session service with its sync task under a scheduler that lets every
\* goroutine that can take a step take one.
NextSync ==
  \/ \E username \in Users : InitSession(username)
  \/ \E username \in Users, ip \in 1..NumFramedIPs : StartSession(username, 1, ip, TRUE)
  \/ \E t \in timers : TimerFire(t)
  \/ \E uuid \in UUIDs : CleanupRun(uuid)
  \/ \E direction \in {"in", "out"}, ip \in 1..NumFramedIPs, octets \in 1..MaxOctets :
       /\ FlowAdmitted(ip, octets)
       /\ NetFlowFind(direction, IF direction = "in" THEN PublicPeer ELSE ip,
                      IF direction = "in" THEN ip ELSE PublicPeer, octets, 1)
  \/ \E f \in flows : NetFlowApply(f)
  \/ SyncAllSessions
  \/ TickSession

SpecSync == InitSession0 /\ [][NextSync]_vars /\ WF_vars(NextSync)

\* One login followed through interims, stop and expiry while the process
\* may be restarted.
NextRestart ==
  \/ \E username \in Users : sessions[1].status = "none" /\ InitSession(username)
  \/ \E username \in Users, ip \in 1..NumFramedIPs : StartSession(username, 1, ip, TRUE)
  \/ InterimUpdate(1)
  \/ StopsPending(1) < MaxPending /\ StopSession(1)
  \/ \E uuid \in UUIDs : ExpireSession(uuid)
  \/ \E t \in timers : TimerFire(t)
  \/ \E d \in dstops : DelayedStopRun(d)
  \/ \E uuid \in UUIDs : CleanupRun(uuid)
  \/ Restart
  \/ TickSession

SpecRestart == InitSession0 /\ [][NextRestart]_vars

\* One login with traffic, then the service is stopped while the timers and
\* the delayed goroutines go on.
NextShutdown ==
  \/ \E username \in Users :
       shutdown = "running" /\ sessions[1].status = "none" /\ InitSession(username)
  \/ \E username \in Users, ip \in 0..NumFramedIPs :
       shutdown = "running" /\ StartSession(username, 1, ip, TRUE)
  \/ \E direction \in {"in", "out"}, ip \in 1..NumFramedIPs, octets \in 1..MaxOctets :
       /\ shutdown = "running"
       /\ FlowAdmitted(ip, octets)
       /\ NetFlowFind(direction, IF direction = "in" THEN PublicPeer ELSE ip,
                      IF direction = "in" THEN ip ELSE PublicPeer, octets, 1)
  \/ \E f \in flows : NetFlowApply(f)
  \/ \E t \in timers : TimerFire(t)
  \/ \E uuid \in UUIDs : CleanupRun(uuid)
  \/ \E disconnectOnShutdown \in BOOLEAN : StopBegin(disconnectOnShutdown)
  \/ StopFinish
  \/ shutdown # "stopped" /\ TickSession

SpecShutdown == InitSession0 /\ [][NextShutdown]_vars

\* What the service does by itself: timers, sleeping goroutines, the cleanup
\* tick and the passing of time.
Background ==
  \/ \E t \in timers : TimerFire(t)
  \/ \E d \in dstops : DelayedStopRun(d)
  \/ \E uuid \in UUIDs : CleanupRun(uuid)
  \/ CleanupExpiredSessions
  \/ TickSession

\* Requests arrive in the first second only; afterwards the service is left
\* to itself, and whatever it can do it does.
NextReclaim ==
  \/ \E username \in Users : now = 1 /\ InitSession(username)
  \/ \E uuid \in UUIDs : now = 1 /\ PrepareSession(uuid)
  \/ \E username \in Users, sid \in SIDs, ip \in 0..NumFramedIPs :
       now = 1 /\ StartSession(username, sid, ip, TRUE)
  \/ \E sid \in SIDs : now = 1 /\ StopsPending(sid) < MaxPending /\ StopSession(sid)
  \/ Background

SpecReclaim == InitSession0 /\ [][NextReclaim]_vars /\ WF_vars(Background)

\* The parser of NAK responses; a loop that can go on does.
SpecNak == Init /\ [][NextNak]_vars /\ WF_vars(ParseStep)

\* main loads the traffic classes before it serves requests.
TreeNotLoaded == FirstUnused /\ SecondUnused /\ sessions[1].status = "none"

\* The session service where one login is followed through the NetFlow
\* records of all peers, with the traffic classes loaded.
NextNetFlow ==
  \/ \E username \in Users : sessions[1].status = "none" /\ InitSession(username)
  \/ \E uuid \in UUIDs : PrepareSession(uuid)
  \/ \E username \in Users, ip \in 1..NumFramedIPs : StartSession(username, 1, ip, TRUE)
  \/ \E direction \in {"in", "out"}, srcIP \in FlowIPs, dstIP \in FlowIPs,
        octets \in 1..MaxOctets :
       /\ FlowAdmitted(TargetIP(direction, srcIP, dstIP), octets)
       /\ NetFlowFind(direction, srcIP, dstIP, octets, 1)
  \/ \E f \in flows : NetFlowApply(f)
  \/ /\ TreeNotLoaded
     /\ \E config \in LoadConfigs : Load(config)

SpecNetFlow == InitSession0 /\ [][NextNetFlow]_vars

\* The disconnect service.
SpecDisconnect == InitSession0 /\ [][NextDisconnect]_vars

\* The billing algorithms.
SpecBilling == InitSession0 /\ [][NextBilling]_vars


(***************************************************************************)
(* Properties of the session service.                                      *)
(***************************************************************************)
Stored(u) == sessions[u].stored

ActiveFor(username) ==
  {u \in UUIDs : Stored(u) /\ sessions[u].username = username /\ IsActive(sessions[u])}

\* C1: for every username at most one session has status active at any
\* instant, whatever the interleaving of init, prepare, start, interim, stop,
\* expire and cleanup.
C1_OneActivePerUsername ==
  \A username \in Users : Cardinality(ActiveFor(username)) <= 1

Leased(ip) == entries[ip].expires_at > now

Holders(ip) ==
  {u \in UUIDs : /\ Stored(u)
                 /\ sessions[u].ip = ip
                 /\ sessions[u].status \in {"active", "stopping"}}

\* C3: at every instant every leased IP (expires_at > now) has exactly one
\* session with that ip whose status is active or stopping.
C3_LeasedIPHasOneSession ==
  \A ip \in IPs : Leased(ip) => Cardinality(Holders(ip)) = 1

Finalized(s) ==
  /\ s.stopped_at > 0
  /\ \E t \in ledger : t.kind = "session" /\ t.ref = s.db_id
  /\ s.db_id # 0 => /\ rows[s.db_id].state = "finished"
                    /\ rows[s.db_id].expired = (s.status = "expired")
  /\ s.ip # NoIP => IsFree(entries[s.ip])

\* C4: every started session that is stopped or expired is finalized: the status is
\* marked, a debit with comment "session <db_session_id>" is in the ledger,
\* the session row is finish-updated and the IP is released.
C4_StoppedOrExpiredIsFinalized ==
  \A u \in UUIDs :
    /\ Stored(u)
    /\ sessions[u].db_id # 0
    /\ sessions[u].status \in {"stopped", "expired"}
    => Finalized(sessions[u])

InterimStep(u) ==
  /\ Stored(u) /\ sessions'[u].stored
  /\ IsActive(sessions[u]) /\ IsActive(sessions'[u])
  /\ sessions'[u].expires_at # sessions[u].expires_at

TimerExpires(u) ==
  /\ Stored(u)
  /\ IsActive(sessions[u])
  /\ sessions'[u].status = "expired"
  /\ \E t \in timers : t.uuid = u /\ t \notin timers'

\* C6: each interim sets the session's timer to now + session_timeout, and
\* the firing of the timer does not expire an active session before
\* session_timeout has elapsed since its latest interim.
C6_TimerFollowsInterim ==
  [][\A u \in UUIDs :
       /\ InterimStep(u) => [uuid |-> u, at |-> now + SessionTimeout] \in timers'
       /\ InterimStep(u) => \A t \in timers' : t.uuid = u => t.at = now + SessionTimeout
       /\ TimerExpires(u) => now >= sessions[u].expires_at]_vars

Created(v) == sessions[v].status = "none" /\ sessions'[v].status = "new"

InitBlocks(username) ==
  /\ muxHolder = NoHolder
  /\ muxHolder' = [op |-> "InitSession", username |-> username]

\* C7: an init for a username that has an active session returns the
\* duplicate error: it creates no session and it returns, so the lock it took
\* is released.
C7_InitRejectsDuplicate ==
  [][\A username \in Users :
       ActiveFor(username) # {} =>
         /\ ~InitBlocks(username)
         /\ \A v \in UUIDs : Created(v) => sessions'[v].username # username]_vars

Lifecycle ==
  {<<"none", "new">>, <<"new", "active">>, <<"active", "stopping">>,
   <<"stopping", "stopped">>, <<"active", "expired">>}

\* C10: the status of a session changes only along the lifecycle: new by
\* init, new to active by start, active to stopping by stop, stopping to
\* stopped after the delay, active to expired by expire, then removal.
C10_StatusFollowsLifecycle ==
  [][\A u \in UUIDs :
       \/ sessions'[u].status = sessions[u].status
       \/ sessions'[u].status = "gone"
       \/ <<sessions[u].status, sessions'[u].status>> \in Lifecycle]_vars

Scheduled == dstops' \ dstops

\* C11: a stop request for a session that is already stopping is a no-op:
\* it starts no second finalization, so the IP is released once and the row
\* is finished once.
C11_SecondStopIsNoOp ==
  [][\A d \in Scheduled : sessions[d.uuid].status # "stopping"]_vars

CountersOf(s) == <<s.in_octets, s.out_octets, s.in_packets, s.out_packets, s.amount>>

SameObject(u) == sessions[u].stored /\ sessions'[u].stored

\* C12: the traffic counters and the amount of a session change only while
\* the session is active: a NetFlow record that races with stop or expire
\* never changes a stopping, stopped or expired session.
C12_CountersChangeOnlyWhileActive ==
  [][\A u \in UUIDs :
       SameObject(u) /\ CountersOf(sessions'[u]) # CountersOf(sessions[u])
         => IsActive(sessions[u])]_vars

\* C13: stopped_at is set exactly on the sessions that are stopped or
\* expired.
C13_StoppedAtIffEnded ==
  \A u \in UUIDs :
    Stored(u) => (sessions[u].stopped_at > 0 <=> sessions[u].status \in {"stopped", "expired"})

Activated(u) == sessions'[u].status = "active" /\ sessions[u].status # "active"

\* C14: a session becomes active only after it was prepared: start for an
\* initialised session that was never prepared leaves it not active.
C14_StartNeedsPrepare ==
  [][\A u \in UUIDs : Activated(u) => sessions[u].prepared]_vars

\* C15: every active session has an IP, also when it was started by an
\* Accounting-Start that carries no framed IP.
C15_ActiveHasIP ==
  \A u \in UUIDs : Stored(u) /\ IsActive(sessions[u]) => sessions[u].ip # NoIP

\* C16: in_octets, out_octets, in_packets, out_packets and amount of a
\* session never decrease, whatever operation runs: NetFlow, interim, sync,
\* stop or expire.
C16_CountersNeverDecrease ==
  [][\A u \in UUIDs :
       SameObject(u) =>
         \A i \in 1..5 : CountersOf(sessions'[u])[i] >= CountersOf(sessions[u])[i]]_vars

(***************************************************************************)
(* Properties of the allocator.                                            *)
(***************************************************************************)
Returned(p) == lease[p].pc = "done"

Succeeded(p) == Returned(p) /\ lease[p].result = "ok"

\* C2: two concurrent Lease calls never both succeed on the same IP: of the
\* calls contending for one free entry exactly one returns it.
C2_NoDoubleLease ==
  \A p, q \in Leasers :
    p # q /\ Succeeded(p) /\ Succeeded(q) => lease[p].ip # lease[q].ip

\* C8: with no release, renew or expiry in between, consecutive Lease calls
\* succeed while the pool has a free entry and then return capacity: a call
\* never fails to return, and it returns capacity only when no entry of the
\* requested pool is free.
C8_CapacityAfterLastEntry ==
  /\ lease[1].pc # "overflow"
  /\ Returned(1) /\ lease[1].result = "capacity" => FreeIn(lease[1].pool) = {}
  /\ Returned(1) /\ FreeIn(lease[1].pool) # {} => lease[1].result = "ok"

Grants(p) == lease[p].pc = "exec" /\ lease'[p].pc = "find"

\* C9: a lease is written on an entry only when the entry's expires_at is 0
\* or <= now at the moment of the write.
C9_GrantOnlyWhenFree ==
  [][\A p \in Leasers : Grants(p) => IsFree(entries[lease[p].cand])]_vars

\* C17: release is idempotent: a release of an address that is already
\* free succeeds and changes neither the entry nor the used counter.
C17_SecondReleaseIsNoOp ==
  [][\A ip \in IPs :
       Release(ip) /\ entries[ip].expires_at = 0 =>
         entries' = entries /\ used' = used]_vars

\* C18: renew of an address that has no entry returns an error and creates
\* no entry; renew of an address that has one sets its expires_at to
\* now + timeout and changes no other entry.
C18_RenewKnownOnly ==
  [][\A ip \in 1..(NumIPs + 1) :
       Renew(ip) =>
         IF ip \in IPs
         THEN /\ renewErr' = "nil"
              /\ entries'[ip].expires_at = now + Timeout
              /\ entries'[ip].pool = entries[ip].pool
              /\ DOMAIN entries' = DOMAIN entries
              /\ \A o \in IPs \ {ip} : entries'[o] = entries[o]
         ELSE /\ renewErr' # "nil"
              /\ entries' = entries]_vars

\* An unknown address was refused and a known one carries a fresh lease.
C18_RenewBothCases ==
  /\ renewErr = "IP not found"
  /\ \E ip \in IPs : entries[ip].expires_at = now + Timeout

CoveredBy(network) ==
  {a \in 0..(AddrMod - 1) :
     a \div (2 ^ (AddrBits - network.mask)) = network.ip \div (2 ^ (AddrBits - network.mask))}

SpanOf(r) == r.Start..r.End

PairwiseDisjoint(ranges) ==
  /\ \A i \in 1..Len(ranges) : SpanOf(ranges[i]) # {}
  /\ \A i, j \in 1..Len(ranges) : i # j => SpanOf(ranges[i]) \cap SpanOf(ranges[j]) = {}

ConfiguredSpans(cs) ==
  UNION {{<<CoveredBy(cs[name][j]), name>> : j \in 1..Len(cs[name])} : name \in Names}

Addresses == 0..(AddrMod - 1)

\* The class of the span of `tr` that contains v, else the default.
ClassOfSpan(tr, v) ==
  IF \E i \in 1..Len(tr) : v \in SpanOf(tr[i])
  THEN (CHOOSE r \in {tr[i] : i \in 1..Len(tr)} : v \in SpanOf(r)).Class
  ELSE ClassDefault

\* C21: for every address v, the first and the last address and the ends of
\* every span included, classify(v) is the class of the loaded span that
\* contains v, else the default.
C21_ClassifyBySpan ==
  \A v \in Addresses :
    /\ ClassifyWithDefault(tree, classes, v, ClassDefault) =
         [Class |-> ClassOfSpan(tree, v), Found |-> TRUE, Err |-> "nil"]
    /\ ClassifyOrDefault(searchTree, v, ClassDefault) = ClassOfSpan(searchTree, v)

\* C22: an operation that fails with overlap leaves the previous tree in
\* place: every address classifies after it as it did before.
C22_FailedLoadKeepsClassification ==
  [][tcErr' = "overlap" =>
       \A v \in Addresses :
         /\ Classify(tree', classes', v) = Classify(tree, classes, v)
         /\ ClassifyIP(searchTree', v) = ClassifyIP(searchTree, v)]_vars

(***************************************************************************)
(* Properties of the subscription processor.                               *)
(***************************************************************************)
SubscriptionDebits(account, month) ==
  {t \in ledger : t.kind = "subscription" /\ t.ref = account /\ t.period = month}

\* C5: for every account and calendar month at most one successful
\* subscription debit is issued, over repeated, re-run, same-date and
\* overlapping runs.
C5_OneDebitPerAccountMonth ==
  \A account \in Accounts, month \in Months :
    Cardinality(SubscriptionDebits(account, month)) <= 1

(***************************************************************************)
(* Properties of the disconnect service.                                   *)
(***************************************************************************)
TransportNames == {"radius", "script", "pod"}

\* The place of a transport in DisconnectSession.
Rank(transport) ==
  CASE transport = "radius" -> 1
    [] transport = "script" -> 2
    [] OTHER -> 3

\* The conditions under which DisconnectSession runs a transport.
Configured(transport) ==
  CASE transport = "radius" -> svcConfig.RADIUSEnabled
    [] transport = "script" -> ScriptConfigured
    [] OTHER -> PodConfigured

\* C23: DisconnectSession runs the enabled transports in the order RADIUS,
\* script, PoD; it returns nil when one of them succeeds, and returns an
\* error, with the last transport's error in it, only when every enabled
\* transport has run and failed.
C23_TransportsInOrderUntilSuccess ==
  /\ \A i, j \in DOMAIN tried :
       i < j => Rank(tried[i].transport) < Rank(tried[j].transport)
  /\ \A i \in DOMAIN tried : Configured(tried[i].transport)
  /\ dpc = "done" =>
       \/ /\ dresult = "nil"
          /\ tried # <<>>
          /\ tried[Len(tried)].err = "nil"
       \/ /\ dresult \in {"all disconnect methods failed",
                          "no disconnect methods configured"}
          /\ \A t \in TransportNames :
               Configured(t) =>
                 \E i \in DOMAIN tried :
                   tried[i].transport = t /\ tried[i].err \notin {"nil", "panic"}
          /\ tried # <<>> => lastErr = tried[Len(tried)].err

\* The RADIUS transport has run to its end against a NAS address that parses.
RadiusRan ==
  /\ tried # <<>>
  /\ tried[1].transport = "radius"
  /\ tried[1].err # "invalid NAS IP"

AllSendsFailed == \A i \in DOMAIN outcomes : outcomes[i] \in SendFailures

NoSendAfterResponse ==
  \A i \in DOMAIN outcomes : i < Len(outcomes) => outcomes[i] \in SendFailures

AtLeastZero(n) == IF n < 0 THEN 0 ELSE n

\* C24 (as stated): with every send failing the RADIUS transport makes
\* exactly as many sends as the configured retries before it reports
\* failure, and it makes no send after a response.
C24_SendsAsConfigured ==
  /\ NoSendAfterResponse
  /\ (RadiusRan /\ AllSendsFailed) =>
       /\ Len(outcomes) = given.Retries
       /\ tried[1].err # "nil"

\* C24 (amended): with every send failing the RADIUS transport makes
\* exactly as many sends as the Retries of the service, which is the
\* default where zero was configured, and none where Retries is negative,
\* before it reports failure; it makes no send after a response.
C24_SendsAsServiceRetries ==
  /\ NoSendAfterResponse
  /\ Len(outcomes) <= AtLeastZero(svcConfig.Retries)
  /\ (RadiusRan /\ AllSendsFailed) =>
       /\ Len(outcomes) = AtLeastZero(svcConfig.Retries)
       /\ tried[1].err # "nil"

\* Zero retries were configured and the default number of sends all failed.
C24_DefaultRetriesExhausted ==
  /\ RadiusRan
  /\ AllSendsFailed
  /\ given.Retries = 0
  /\ Len(outcomes) = DefaultRetries

(***************************************************************************)
(* Properties of the billing algorithms.                                   *)
(***************************************************************************)
Accepted(result) == result.Decision \in {"accept", "Accept"}

Rejected(result) == result.Decision \in {"reject", "Reject"}

\* The algorithm, balance, credit and plan_data of the last call.
CallAlgo ==
  IF billCall.op \in {"Authorize", "ProcessAccounting"}
    THEN SplitAlgoName(billCall.account.Algo).function
    ELSE billCall.algo

CallParsed ==
  billCall.op \in {"Authorize", "ProcessAccounting"} => billCall.account.PData # BadJSON

CallPlanData ==
  IF billCall.op \in {"Authorize", "ProcessAccounting"}
    THEN billCall.account.PData ELSE billCall.planData

CallFunds ==
  IF billCall.op = "Authorize"
    THEN billCall.account.Balance + billCall.account.Credit
    ELSE billCall.balance + Get(billCall.planData.CREDIT, 0)

\* The amount the prepaid accounting charges for the traffic of the last call.
PrepaidCharge ==
  IF billCall.op = "ProcessAccounting"
    THEN prepaidAccounting(billCall.account, billCall.account.PData, billCall.req).Amount
    ELSE PrepaidAccount(billCall.planData, billCall.direction, billCall.targetIP,
                        billCall.octets, billCall.todaySeconds).Amount

\* C25: under no_overlimit_auth accounting records no amount above 0; where
\* the prepaid computation charges more than 0 the result carries
\* DROP_SPEED = 1 in its plan_data; an authorize that finds DROP_SPEED = 1
\* and accepts replies with the slow shaper of the plan, not with the
\* shaper of the access interval.
C25_NoOverlimitRecordsZero ==
  /\ (billCall.op \in {"ProcessAccounting", "Algorithm.Account"}
        /\ CallParsed /\ CallAlgo = "no_overlimit_auth") =>
       /\ billResult.Amount = 0
       /\ PrepaidCharge > 0 => billResult.PlanData.DROP_SPEED = <<1>>
  /\ (billCall.op = "Algorithm.Authorize" /\ CallAlgo = "no_overlimit_auth"
        /\ Accepted(billResult) /\ billCall.planData.DROP_SPEED = <<1>>) =>
       billResult.Replies = ShaperReply(billCall.planData.SHAPER)

\* C28: prepaid_auth accepts exactly when balance + credit >= 0 and the
\* access intervals allow the time of day, zero funds included; otherwise
\* it rejects, for low balance or for the time of day.
C28_PrepaidAcceptsIffFundsAndAccess ==
  (billCall.op \in {"Authorize", "Algorithm.Authorize"}
     /\ CallParsed /\ CallAlgo = "prepaid_auth") =>
    LET allowed == checkAccessIntervals(CallPlanData, "", billCall.todaySeconds).Decision
                     = "accept"
    IN  /\ Accepted(billResult) <=> (CallFunds >= 0 /\ allowed)
        /\ ~Accepted(billResult) =>
             /\ Rejected(billResult)
             /\ billResult.Reason \in
                  (IF allowed THEN {"low_balance", "Insufficient balance"}
                   ELSE {"time_of_day"})

\* C29: an algorithm name that is none of the four algorithms is rejected
\* as unknown, by Authorize and by ProcessAccounting.
C29_UnknownAlgoRejected ==
  (billCall.op \in {"Authorize", "ProcessAccounting"}
     /\ CallParsed /\ CallAlgo \notin KnownAlgos) =>
    /\ Rejected(billResult)
    /\ billResult.Reason \in {"Unknown auth algorithm", "Unknown acct algorithm"}

(***************************************************************************)
(* Properties of the NetFlow accounting.                                   *)
(***************************************************************************)
\* accounts.acct_algo and accounts.plan_data of the subscribers.
AcctAlgoOf(username) == <<"on_auth">>

PlanDataOf(username) ==
  [cost_per_mb |-> <<>>, session_cost |-> <<>>, CREDIT |-> <<>>, SHAPER |-> "",
   DROP_SPEED |-> <<>>, ACCESS_INTERVALS |-> <<>>, INTERVALS |-> <<>>, PREPAID |-> <<>>]

\* OnAuthAlgorithm.Account
OnAuthAccount(planData, targetIP) ==
  BillingResult("accept", "", 0, <<>>, planData, billingClassifyTraffic(targetIP))

\* An address as the string the algorithms are given.
DottedIP(ip) == IF IsPrivate(ip) THEN "10.0.0.1" ELSE "203.0.113.1"

\* The Account method of the algorithm an acct_algo names.
AcctAlgoAccount(algoName, planData, direction, targetIP, octets) ==
  LET function == SplitAlgoName(algoName).function
  IN  CASE function = "on_auth" -> OnAuthAccount(planData, targetIP)
        [] function = "no_overlimit_auth" ->
             NoOverlimitAccount(planData, direction, targetIP, octets, 0)
        [] OTHER -> PrepaidAccount(planData, direction, targetIP, octets, 0)

\* The peer of a flow: the address that is not the subscriber's.
PeerIP(f) == IF f.direction = "in" THEN f.src ELSE f.dst

\* The classes of the traffic-class configuration by their names.
ClassLabel(class) ==
  IF class = ClassDefault THEN "default"
  ELSE IF class = 1 THEN "local" ELSE "internet"

\* C26: the amount a matched NetFlow record adds to its session is the
\* amount the Account method of the session's acct_algo returns for the
\* record, nothing for a session accounted by on_auth.
C26_AmountFromAcctAlgo ==
  [][\A f \in flows :
       NetFlowApply(f) =>
         sessions'[f.uuid].amount - sessions[f.uuid].amount =
           AcctAlgoAccount(AcctAlgoOf(sessions[f.uuid].username),
                           PlanDataOf(sessions[f.uuid].username), f.direction,
                           DottedIP(TargetIP(f.direction, f.src, f.dst)),
                           f.octets).Amount]_vars

\* C27: the session of a NetFlow record is the one of dst for direction in
\* and of src otherwise, and the class of the record is the class of the
\* opposite peer in the traffic-class tree, the default class where the
\* tree does not hold the peer.
C27_ClassOfPeer ==
  \A f \in flows :
    /\ sessions[f.uuid].ip = (IF f.direction = "in" THEN f.dst ELSE f.src)
    /\ f.class = ClassLabel(ClassifyOrDefault(searchTree, PeerIP(f), ClassDefault))

\* C30: while a HandleNetFlow call that has found its session is in
\* progress, no other operation writes that session.
C30_SessionOperationsSerialized ==
  [][\A f \in flows : f \in flows' => sessions'[f.uuid] = sessions[f.uuid]]_vars

(***************************************************************************)
(* Properties of the session lock.                                         *)
(***************************************************************************)
\* C31: no operation of the session service keeps the session lock for
\* ever: whenever a call holds the lock while it waits, the lock is later
\* free again.
C31_LockIsReleased == muxStuck ~> ~muxStuck

\* The three lookups of a session resolve to it.
Indexed(u) ==
  /\ findSessionByUsername(sessions[u].username) = u
  /\ findSessionByIP(sessions[u].ip) = u
  /\ findSessionBySID(sessions[u].sid) = u

\* C32: at every instant every active session of the store whose start
\* created its row is found by its username, by its framed IP and by its
\* Acct-Session-Id.
C32_ActiveSessionsIndexed ==
  \A u \in UUIDs :
    sessions[u].stored /\ IsActive(sessions[u]) /\ sessions[u].db_id # 0 => Indexed(u)

(***************************************************************************)
(* Properties of the sync task.                                            *)
(***************************************************************************)
\* The session of row r has accumulated the amount a.
Accumulated(r, a) ==
  \E u \in UUIDs : sessions[u].stored /\ sessions[u].db_id = r /\ sessions[u].amount = a

\* C33: a session that needs a sync is written by a later sync cycle, so every
\* amount a session has accumulated is eventually in its row.
C33_UpdatesReachTheRow ==
  \A r \in 1..MaxRows, a \in 1..MaxAmount : Accumulated(r, a) ~> (rows[r].amount >= a)

(***************************************************************************)
(* Properties of the restart.                                              *)
(***************************************************************************)
\* The session was active in the process that stopped.
WasActive(u) == sessions[u].stored /\ IsActive(sessions[u])

\* C34: a restart reloads as active only sessions that were active when the
\* process stopped, and arms a timer exactly for those of them that had not
\* expired.
C34_ReloadedAsTheyWere ==
  [][Restart =>
       \A u \in UUIDs :
         /\ sessions'[u].stored /\ IsActive(sessions'[u]) => WasActive(u)
         /\ (\E t \in timers' : t.uuid = u)
              <=> (WasActive(u) /\ now < sessions[u].expires_at)]_vars

(***************************************************************************)
(* Properties of the shutdown.                                             *)
(***************************************************************************)
\* C35: between the shutdown signal and the return of Stop no session timer
\* fires and no session is expired: the timeout tasks were cancelled.
C35_ShutdownExpiresNothing ==
  [][shutdown = "waiting" =>
       \A u \in UUIDs : sessions'[u].status = "expired" => sessions[u].status = "expired"]_vars

(***************************************************************************)
(* Properties of the address a lease returns.                              *)
(***************************************************************************)
\* C36: the address a successful Lease call returns is the entry that this
\* call wrote as leased, so successive calls return different addresses.
C36_ReturnsTheEntryItLeased ==
  Succeeded(1) => lease[1].ip = lease[1].cand

(***************************************************************************)
(* Properties of a failed AddClass.                                        *)
(***************************************************************************)
\* C37: an AddClass that returns an error changes neither the tree nor the
\* class table, and every address that had a class keeps it.
C37_FailedAddClassChangesNothing ==
  [][\A class \in Rules :
       AddClass(class) /\ tcErr' # "nil" =>
         /\ tree' = tree /\ classes' = classes
         /\ \A v \in Addresses :
              Classify(tree, classes, v).Found =>
                Classify(tree', classes', v) = Classify(tree, classes, v)]_vars

(***************************************************************************)
(* Properties of the removal of sessions.                                  *)
(***************************************************************************)
\* C38: every session of the store is eventually removed from it, together
\* with its hash in Redis.
C38_SessionsAreRemoved ==
  \A u \in UUIDs :
    sessions[u].stored ~> (~sessions[u].stored /\ sessions[u].hash = NoHash)

(***************************************************************************)
(* Properties of the used counter.                                         *)
(***************************************************************************)
\* C39: the used counter of every pool is the number of entries of the pool
\* that are leased, and it is never negative.
C39_UsedCountsLeasedEntries ==
  \A pool \in Pools : used[pool] = Cardinality(LeasedIn(pool)) /\ used[pool] >= 0

(***************************************************************************)
(* Properties of the NAK parser.                                           *)
(***************************************************************************)
\* C40: parseErrorCause returns for every response: a call that is in its
\* loop leaves it.
C40_ParseTerminates == (nakPc = "loop") ~> (nakPc = "done")

====
